---- MODULE Spec2Model ----
(***************************************************************************)
(* Model of rotate_iam_keys.py: the IAMKeyRotator operations               *)
(* (get_users_with_old_keys, rotate_user_key, cleanup_old_keys) and the    *)
(* orchestration in main(), run against a model of the IAM service.        *)
(* One action per remote call or loop step of the script; every remote     *)
(* call may fail (at most MaxFailures times per run).                      *)
(***************************************************************************)
EXTENDS Integers, Sequences, FiniteSets, TLC

\* ------------------------------------------------------------ bounds
\* Clock ticks per day: creation dates and "now" are counted in ticks, so
\* that an age can lie strictly between two whole numbers of days.
TicksPerDay == 2
\* The clock starts at 0 and advances at most this many ticks during a run.
MaxTicks == 1
\* At most this many remote calls fail during one run.
MaxFailures == 2
\* A client of the IAMKeyRotator class makes at most this many calls of
\* rotate_user_key and cleanup_old_keys.
MaxLibCalls == 3

\* ------------------------------------------------------------ program constants
\* --days-threshold default
DefaultDaysThreshold == 90
\* days_inactive passed by main() to cleanup_old_keys
DaysInactive == 30
\* the AWS limit rotate_user_key checks against
MaxKeysPerUser == 2

None == "<None>"
\* the result dictionary has no such entry
Absent == <<>>
DRY_RUN_KEY_ID == "DRY_RUN_KEY_ID"

\* ------------------------------------------------------------ the identity service
Users == {"u1", "u2"}
\* list_users is paginated: the ways the paginator may split the users into
\* pages (one user per page, or both users on one page).
PageLayouts == { << <<"u1">>, <<"u2">> >>, << <<"u1", "u2">> >> }
\* Access key ids the service hands out, in order; the first four are the
\* ids of the keys that exist when the run starts.
KeyIds == <<"AKIA1", "AKIA2", "AKIA3", "AKIA4", "AKIA5", "AKIA6", "AKIA7",
            "AKIA8">>
SecretOf(id) == <<"secret", id>>

Days(d) == d * TicksPerDay

\* A key as list_access_keys reports it (AccessKeyId, Status, CreateDate).
Key(id, status, create) == [id |-> id, status |-> status, create |-> create]

\* The kinds of key a user may hold when a run starts: active keys at and
\* just over the rotation threshold, inactive keys at the grace-period
\* boundary and well past it.
InitKinds ==
    { [status |-> "Active",   create |-> 0 - Days(DefaultDaysThreshold)],
      [status |-> "Active",   create |-> 0 - Days(DefaultDaysThreshold) - 1],
      [status |-> "Inactive", create |-> 0 - Days(DaysInactive)],
      [status |-> "Inactive", create |-> 0 - Days(DefaultDaysThreshold) - 1] }

\* The key lists one user may start with: 0, 1 or 2 keys.
InitKeyLists(id1, id2) ==
    { <<>> }
    \cup { << Key(id1, k.status, k.create) >> : k \in InitKinds }
    \cup { << Key(id1, k1.status, k1.create), Key(id2, k2.status, k2.create) >> :
             k1 \in InitKinds, k2 \in InitKinds }

Range(s) == { s[i] : i \in 1..Len(s) }
KeyIdsOf(keys) == { keys[i].id : i \in 1..Len(keys) }
HasKey(svc, u, id) == id \in KeyIdsOf(svc[u])
KeyOf(svc, u, id) == CHOOSE k \in Range(svc[u]) : k.id = id

RECURSIVE SelectSeqNot(_, _)
\* the sequence s without the keys whose id is id
SelectSeqNot(s, id) ==
    IF s = <<>> THEN <<>>
    ELSE IF Head(s).id = id THEN SelectSeqNot(Tail(s), id)
         ELSE <<Head(s)>> \o SelectSeqNot(Tail(s), id)

\* iam.create_access_key: a new key is Active and created now.
SvcCreate(svc, u, id, t) == [svc EXCEPT ![u] = Append(@, Key(id, "Active", t))]
\* iam.update_access_key
SvcUpdate(svc, u, id, st) ==
    [svc EXCEPT ![u] = [i \in 1..Len(@) |->
                          IF @[i].id = id THEN [@[i] EXCEPT !.status = st] ELSE @[i]]]
\* iam.delete_access_key
SvcDelete(svc, u, id) == [svc EXCEPT ![u] = SelectSeqNot(@, id)]

\* A remote call recorded in the trace of the run.
Call(op, u, k, ok) == [op |-> op, user |-> u, key |-> k, ok |-> ok]

\* no second run of the script is waiting
NoRun == <<>>

\* ------------------------------------------------------------ state
VARIABLES
    iam,                \* the service: user -> list of keys
    now,                \* the clock, in ticks since the run started
    nextId,             \* index in KeyIds of the next id the service hands out
    failures,           \* remote calls that have failed so far
    calls,              \* trace of the remote calls (and sleeps) of the run
    args,               \* the parsed command line, and the paging of list_users
    pc,                 \* position of main()
    exitCode,           \* <<status>> once sys.exit was called, <<>> while running
    execution_results,  \* main(): rotated_keys, cleanup_results, errors, summary
    pageIdx,            \* paginator position (Discovery, sweep loop)
    userIdx,            \* position in page['Users']
    threshold_date,     \* get_users_with_old_keys
    old_keys,           \* get_users_with_old_keys: its result list
    rotIdx,             \* main(): position in old_keys
    keys_response,      \* list_access_keys response held by the caller
    keyIdx,             \* position in keys_response['AccessKeyMetadata']
    result,             \* rotate_user_key: its result dictionary
    cutoff_date,        \* cleanup_old_keys
    cleanup_result,     \* cleanup_old_keys: its result dictionary
    opStart,            \* length of calls when the current operation was entered
    pre,                \* the service state when the current operation was entered
    suspended           \* the local state of a second run that is waiting, or NoRun

\* the pages the list_users paginator yields in this run, in order
Pages == args.pages

svcVars  == <<iam, nextId>>
discVars == <<threshold_date, old_keys>>
loopVars == <<pageIdx, userIdx, rotIdx, keys_response, keyIdx>>
opVars   == <<opStart, pre>>
vars == <<iam, now, nextId, failures, calls, args, pc, exitCode, execution_results,
          pageIdx, userIdx, threshold_date, old_keys, rotIdx, keys_response, keyIdx,
          result, cutoff_date, cleanup_result, opStart, pre, suspended>>

\* (mutant) the dry_run argument is not passed on: every call is live
NewRotationResult_IgnoresDryRun(username, old_key_id, dry_run) ==
    [username |-> username, old_key_id |-> old_key_id, new_key_id |-> None,
     success |-> FALSE, error |-> None, dry_run |-> FALSE,
     new_secret_key |-> Absent]

\* rotate_user_key: the result dictionary as first built
NewRotationResult(username, old_key_id, dry_run) ==
    [username |-> username, old_key_id |-> old_key_id, new_key_id |-> None,
     success |-> FALSE, error |-> None, dry_run |-> dry_run,
     new_secret_key |-> Absent]

\* cleanup_old_keys: the result dictionary as first built
NewCleanupResult(username, dry_run) ==
    [username |-> username, deleted_keys |-> <<>>, success |-> FALSE,
     error |-> None, dry_run |-> dry_run]

\* main(): execution_results as first built
NewExecutionResults ==
    [rotated_keys |-> <<>>, cleanup_results |-> <<>>, errors |-> <<>>,
     summary |-> [total_keys_processed |-> 0, successful_rotations |-> 0,
                  failed_rotations |-> 0, cleanup_operations |-> 0]]

Init ==
    /\ iam \in { f \in [Users -> InitKeyLists(KeyIds[1], KeyIds[2])
                                 \cup InitKeyLists(KeyIds[3], KeyIds[4])] :
                   /\ f["u1"] \in InitKeyLists(KeyIds[1], KeyIds[2])
                   /\ f["u2"] \in InitKeyLists(KeyIds[3], KeyIds[4]) }
    /\ now = 0
    /\ nextId = 5
    /\ failures = 0
    /\ calls = <<>>
    /\ args \in [dry_run : BOOLEAN, days_threshold : {DefaultDaysThreshold},
                 user : {None} \cup Users, cleanup_inactive : BOOLEAN,
                 pages : PageLayouts]
    /\ pc = "start"
    /\ exitCode = <<>>
    /\ execution_results = NewExecutionResults
    /\ pageIdx = 1
    /\ userIdx = 1
    /\ threshold_date = 0
    /\ old_keys = <<>>
    /\ rotIdx = 1
    /\ keys_response = <<>>
    /\ keyIdx = 1
    /\ result = NewRotationResult(None, None, FALSE)
    /\ cutoff_date = 0
    /\ cleanup_result = NewCleanupResult(None, FALSE)
    /\ opStart = 0
    /\ pre = iam
    /\ suspended = NoRun

\* ------------------------------------------------------------ the environment
\* The outcomes a remote call may have: it fails when the service must
\* reject it, and may fail for any other reason (throttling, network, access)
\* while the failure budget of the run lasts.
Outcomes(accepted) ==
    IF ~accepted THEN {FALSE}
    ELSE IF failures < MaxFailures THEN {TRUE, FALSE} ELSE {TRUE}

\* datetime.now(): the clock may have advanced since it was last read.
NowChoices == IF now < MaxTicks THEN {now, now + 1} ELSE {now}

Failed(ok) == IF ok THEN failures ELSE failures + 1

\* main(): the except clause of the whole run (script execution failed)
Fatal(msg) ==
    /\ execution_results' = [execution_results EXCEPT !.errors = Append(@, msg)]
    /\ exitCode' = <<1>>
    /\ pc' = "done"

\* (mutant) a run restricted to one user does not sweep
AfterRotations_UserSkipsSweep ==
    IF args.cleanup_inactive /\ args.user = None THEN "sweep_page" ELSE "summary"

\* (mutant) the cleanup loop is never entered
AfterRotations_SkipsSweep == "summary"

\* main(): where the run goes once the rotations are done
AfterRotations == IF args.cleanup_inactive THEN "sweep_page" ELSE "summary"

\* ------------------------------------------------------------ main(): start
\* (mutant) a failed connection test is only logged and the run goes on
Connect_IgnoresFailure ==
    /\ pc = "start"
    /\ \E ok \in Outcomes(TRUE) :
        /\ calls' = Append(calls, Call("get_account_summary", None, None, ok))
        /\ failures' = Failed(ok)
        /\ pc' = IF args.user # None THEN "user_list" ELSE "disc_begin"
        /\ UNCHANGED <<exitCode, execution_results>>
    /\ UNCHANGED <<svcVars, now, args, loopVars, discVars, result, cutoff_date,
                   cleanup_result, opVars>>
    /\ UNCHANGED suspended

\* IAMKeyRotator.__init__: the connection test get_account_summary
Connect ==
    /\ pc = "start"
    /\ \E ok \in Outcomes(TRUE) :
        /\ calls' = Append(calls, Call("get_account_summary", None, None, ok))
        /\ failures' = Failed(ok)
        /\ IF ok
           THEN /\ pc' = IF args.user # None THEN "user_list" ELSE "disc_begin"
                /\ UNCHANGED <<exitCode, execution_results>>
           ELSE Fatal("get_account_summary failed")
    /\ UNCHANGED <<svcVars, now, args, loopVars, discVars, result, cutoff_date,
                   cleanup_result, opVars>>
    /\ UNCHANGED suspended

\* ------------------------------------------------------------ Discovery
\* (mutant) a key created exactly at threshold_date is reported too
IsOldActiveKey_Inclusive(key, threshold) ==
    key.create <= threshold /\ key.status = "Active"

\* get_users_with_old_keys: the test a key must pass to be reported
IsOldActiveKey(key, threshold) ==
    key.create < threshold /\ key.status = "Active"

\* get_users_with_old_keys: the record appended for a key, its age read at t
OldKeyRecord(username, key, t) ==
    [username |-> username, access_key_id |-> key.id, create_date |-> key.create,
     age_days |-> (t - key.create) \div TicksPerDay, status |-> key.status]

\* datetime.now() read once per element of a loop of n steps: the times read,
\* each no earlier than the one before
ClockReads(n) ==
    { ts \in [1..n -> now..MaxTicks] : \A i \in 1..n : \A j \in 1..n : i <= j => ts[i] <= ts[j] }

\* the clock after the reads ts
ClockAfter(ts) == IF Len(ts) = 0 THEN now ELSE ts[Len(ts)]

RECURSIVE OldKeysOf(_, _, _, _)
\* get_users_with_old_keys: the inner loop over one user's AccessKeyMetadata;
\* ts[i] is the time read for key_age of the i-th key
OldKeysOf(username, keys, threshold, ts) ==
    IF keys = <<>> THEN <<>>
    ELSE (IF IsOldActiveKey(Head(keys), threshold)
          THEN << OldKeyRecord(username, Head(keys), Head(ts)) >> ELSE <<>>)
         \o OldKeysOf(username, Tail(keys), threshold, Tail(ts))

\* get_users_with_old_keys: threshold_date and the paginator are set up
DiscoveryBegin ==
    /\ pc = "disc_begin"
    /\ \E t \in NowChoices :
        /\ now' = t
        /\ threshold_date' = t - Days(args.days_threshold)
    /\ old_keys' = <<>>
    /\ pageIdx' = 1
    /\ opStart' = Len(calls)
    /\ pre' = iam
    /\ pc' = "disc_page"
    /\ UNCHANGED <<svcVars, failures, calls, args, exitCode, execution_results,
                   userIdx, rotIdx, keys_response, keyIdx, result, cutoff_date,
                   cleanup_result>>
    /\ UNCHANGED suspended

\* (mutant) a failed list_users ends the scan and the records found so far
\* are returned
DiscoveryPage_ReturnsPartial ==
    /\ pc = "disc_page"
    /\ pageIdx <= Len(Pages)
    /\ \E ok \in Outcomes(TRUE) :
        /\ calls' = Append(calls, Call("list_users", None, None, ok))
        /\ failures' = Failed(ok)
        /\ IF ok
           THEN /\ userIdx' = 1
                /\ pc' = "disc_user"
           ELSE /\ pc' = "rot_loop"
                /\ UNCHANGED userIdx
    /\ UNCHANGED <<svcVars, now, args, pageIdx, rotIdx, keys_response, keyIdx,
                   discVars, result, cutoff_date, cleanup_result, opVars,
                   exitCode, execution_results>>
    /\ UNCHANGED suspended

\* get_users_with_old_keys: the paginator fetches the next page of list_users;
\* a failure is re-raised and ends the run
DiscoveryPage ==
    /\ pc = "disc_page"
    /\ pageIdx <= Len(Pages)
    /\ \E ok \in Outcomes(TRUE) :
        /\ calls' = Append(calls, Call("list_users", None, None, ok))
        /\ failures' = Failed(ok)
        /\ IF ok
           THEN /\ userIdx' = 1
                /\ pc' = "disc_user"
                /\ UNCHANGED <<exitCode, execution_results>>
           ELSE /\ Fatal("list_users failed")
                /\ UNCHANGED userIdx
    /\ UNCHANGED <<svcVars, now, args, pageIdx, rotIdx, keys_response, keyIdx,
                   discVars, result, cutoff_date, cleanup_result, opVars>>
    /\ UNCHANGED suspended

\* (mutant) a failed list_access_keys ends the loop over the users of the page
DiscoveryUser_SkipsRestOfPage ==
    /\ pc = "disc_user"
    /\ LET username == Pages[pageIdx][userIdx] IN
       \E ok \in Outcomes(TRUE) :
        /\ calls' = Append(calls, Call("list_access_keys", username, None, ok))
        /\ failures' = Failed(ok)
        /\ IF ok
           THEN \E ts \in ClockReads(Len(iam[username])) :
                /\ old_keys' = old_keys \o OldKeysOf(username, iam[username],
                                                      threshold_date, ts)
                /\ now' = ClockAfter(ts)
           ELSE UNCHANGED <<old_keys, now>>
        /\ IF ok /\ userIdx < Len(Pages[pageIdx])
           THEN /\ userIdx' = userIdx + 1
                /\ UNCHANGED <<pageIdx, pc>>
           ELSE /\ pageIdx' = pageIdx + 1
                /\ pc' = "disc_page"
                /\ UNCHANGED userIdx
    /\ UNCHANGED <<svcVars, args, exitCode, execution_results, threshold_date,
                   rotIdx, keys_response, keyIdx, result, cutoff_date,
                   cleanup_result, opVars>>
    /\ UNCHANGED suspended

\* get_users_with_old_keys: one user of the page: list_access_keys, then the
\* loop over its keys; a failure of the call is logged and the user skipped
DiscoveryUser ==
    /\ pc = "disc_user"
    /\ LET username == Pages[pageIdx][userIdx] IN
       \E ok \in Outcomes(TRUE) :
        /\ calls' = Append(calls, Call("list_access_keys", username, None, ok))
        /\ failures' = Failed(ok)
        /\ IF ok
           THEN \E ts \in ClockReads(Len(iam[username])) :
                /\ old_keys' = old_keys \o OldKeysOf(username, iam[username],
                                                      threshold_date, ts)
                /\ now' = ClockAfter(ts)
           ELSE UNCHANGED <<old_keys, now>>
    /\ IF userIdx < Len(Pages[pageIdx])
       THEN /\ userIdx' = userIdx + 1
            /\ UNCHANGED <<pageIdx, pc>>
       ELSE /\ pageIdx' = pageIdx + 1
            /\ pc' = "disc_page"
            /\ UNCHANGED userIdx
    /\ UNCHANGED <<svcVars, args, exitCode, execution_results, threshold_date,
                   rotIdx, keys_response, keyIdx, result, cutoff_date,
                   cleanup_result, opVars>>
    /\ UNCHANGED suspended

\* get_users_with_old_keys returns old_keys; main() starts its loop over them
DiscoveryReturn ==
    /\ pc = "disc_page"
    /\ pageIdx > Len(Pages)
    /\ rotIdx' = 1
    /\ pc' = "rot_loop"
    /\ UNCHANGED <<svcVars, now, failures, calls, args, exitCode, execution_results,
                   pageIdx, userIdx, keys_response, keyIdx, discVars, result,
                   cutoff_date, cleanup_result, opVars>>
    /\ UNCHANGED suspended

\* ------------------------------------------------------------ main(): rotation loops
\* main(): the loop over old_keys calls rotate_user_key for the next record
RotationLoop ==
    /\ pc = "rot_loop"
    /\ rotIdx <= Len(old_keys)
    /\ result' = NewRotationResult(old_keys[rotIdx].username,
                                   old_keys[rotIdx].access_key_id, args.dry_run)
    /\ opStart' = Len(calls)
    /\ pre' = iam
    /\ pc' = "rot_begin"
    /\ UNCHANGED <<svcVars, now, failures, calls, args, exitCode, execution_results,
                   loopVars, discVars, cutoff_date, cleanup_result>>
    /\ UNCHANGED suspended

\* main(): the loop over old_keys is over (or old_keys was empty)
RotationLoopEnd ==
    /\ pc = "rot_loop"
    /\ rotIdx > Len(old_keys)
    /\ pageIdx' = 1
    /\ pc' = AfterRotations
    /\ UNCHANGED <<svcVars, now, failures, calls, args, exitCode, execution_results,
                   userIdx, rotIdx, keys_response, keyIdx, discVars, result,
                   cutoff_date, cleanup_result, opVars>>
    /\ UNCHANGED suspended

\* main(), --user: list_access_keys of that user; a failure ends the run
UserList ==
    /\ pc = "user_list"
    /\ \E ok \in Outcomes(TRUE) :
        /\ calls' = Append(calls, Call("list_access_keys", args.user, None, ok))
        /\ failures' = Failed(ok)
        /\ IF ok
           THEN /\ keys_response' = iam[args.user]
                /\ keyIdx' = 1
                /\ pc' = "user_loop"
                /\ UNCHANGED <<exitCode, execution_results>>
           ELSE /\ Fatal("list_access_keys failed")
                /\ UNCHANGED <<keys_response, keyIdx>>
    /\ UNCHANGED <<svcVars, now, args, pageIdx, userIdx, rotIdx, discVars, result,
                   cutoff_date, cleanup_result, opVars>>
    /\ UNCHANGED suspended

\* main(), --user: the test a key of the user must pass to be rotated
UserKeyQualifies(key, t, days_threshold) ==
    /\ key.status = "Active"
    /\ (t - key.create) \div TicksPerDay >= days_threshold

\* main(), --user: one key of the response: rotate_user_key is called for it
\* when it qualifies, else the loop moves on
UserLoop ==
    /\ pc = "user_loop"
    /\ keyIdx <= Len(keys_response)
    /\ LET key == keys_response[keyIdx] IN
       \E t \in (IF key.status = "Active" THEN NowChoices ELSE {now}) :
        /\ now' = t
        /\ IF UserKeyQualifies(key, t, args.days_threshold)
           THEN /\ result' = NewRotationResult(args.user, key.id, args.dry_run)
                /\ opStart' = Len(calls)
                /\ pre' = iam
                /\ pc' = "rot_begin"
                /\ UNCHANGED keyIdx
           ELSE /\ keyIdx' = keyIdx + 1
                /\ UNCHANGED <<result, opVars, pc>>
    /\ UNCHANGED <<svcVars, failures, calls, args, exitCode, execution_results,
                   pageIdx, userIdx, rotIdx, keys_response, discVars, cutoff_date,
                   cleanup_result>>
    /\ UNCHANGED suspended

\* main(), --user: the loop over the user's keys is over
UserLoopEnd ==
    /\ pc = "user_loop"
    /\ keyIdx > Len(keys_response)
    /\ pageIdx' = 1
    /\ pc' = AfterRotations
    /\ UNCHANGED <<svcVars, now, failures, calls, args, exitCode, execution_results,
                   userIdx, rotIdx, keys_response, keyIdx, discVars, result,
                   cutoff_date, cleanup_result, opVars>>
    /\ UNCHANGED suspended

\* ------------------------------------------------------------ Rotation
\* (mutant) the check is left out
CapacityExceeded_Never(existing_keys) == FALSE

\* (mutant) the check counts the Active keys only
CapacityExceeded_ActiveOnly(existing_keys) ==
    Cardinality({ i \in 1..Len(existing_keys) : existing_keys[i].status = "Active" })
        >= MaxKeysPerUser

\* (mutant) the check lets a user with exactly two keys through
CapacityExceeded_OffByOne(existing_keys) == Len(existing_keys) > MaxKeysPerUser

\* rotate_user_key: the check against the AWS limit of keys per user
CapacityExceeded(existing_keys) == Len(existing_keys) >= MaxKeysPerUser

\* (mutant) update_access_key is called with the status the key does not have
RetiredStatus_Toggles ==
    IF KeyOf(iam, result.username, result.old_key_id).status = "Inactive"
    THEN "Active" ELSE "Inactive"

\* (mutant) the old key is left Active
RetiredStatus_Active == "Active"

\* rotate_user_key: the status the old key is given
RetiredStatus == "Inactive"

\* (mutant) the dry run leaves new_key_id unset
DryRunResult_NoSentinel(res) == [res EXCEPT !.success = TRUE]

\* rotate_user_key: the result of the dry-run short cut
DryRunResult(res) == [res EXCEPT !.success = TRUE, !.new_key_id = DRY_RUN_KEY_ID]

\* (mutant) the secret is not put in the result
RotationSuccess_NoSecret(res) == [res EXCEPT !.success = TRUE]

\* rotate_user_key: the result once the old key is deactivated
RotationSuccess(res) ==
    [res EXCEPT !.success = TRUE, !.new_secret_key = SecretOf(res.new_key_id)]

\* (mutant) the except clause forgets the id of the key that was created
RotationError_ClearsNewKey(res, e) ==
    [res EXCEPT !.error = e, !.new_key_id = None]

\* (mutant) the except clause puts the secret of the created key in the result
RotationError_LeaksSecret(res, e) ==
    [res EXCEPT !.error = e,
                !.new_secret_key = IF res.new_key_id = None THEN Absent
                                   ELSE SecretOf(res.new_key_id)]

\* (mutant) the except clause does not record the error
RotationError_Silent(res, e) == res

\* rotate_user_key: the error recorded by the except clause for exception e
RotationError(res, e) == [res EXCEPT !.error = e]

\* (mutant) the cleanup of the except clause deletes the first key listed
CleanupTarget_FirstKey(res) == iam[res.username][1].id

\* (mutant) the cleanup of the except clause deletes the old key
CleanupTarget_OldKey(res) == res.old_key_id

\* rotate_user_key: the key the cleanup of the except clause deletes
CleanupTarget(res) == res.new_key_id

\* (mutant) the except clause tests dry_run instead of not dry_run
NeedsCleanup_DryRunOnly(res) == res.new_key_id # None /\ res.dry_run

\* (mutant) the except clause deletes the new key whether one was created or not
NeedsCleanup_Always(res) == ~res.dry_run

\* (mutant) the except clause never deletes the new key
NeedsCleanup_Never(res) == FALSE

\* rotate_user_key: whether the except clause deletes the new key
NeedsCleanup(res) == res.new_key_id # None /\ ~res.dry_run

\* (mutant) a failed create_access_key is recorded but the old key is
\* deactivated all the same
RotationFails_StillRetires(e) ==
    /\ result' = RotationError(result, e)
    /\ pc' = IF pc = "rot_create" THEN "rot_update"
             ELSE IF NeedsCleanup(result) THEN "rot_cleanup" ELSE "rot_return"

\* rotate_user_key: the except clause, entered with exception e
RotationFails(e) ==
    /\ result' = RotationError(result, e)
    /\ pc' = IF NeedsCleanup(result) THEN "rot_cleanup" ELSE "rot_return"

\* (mutant) the capacity read is made before dry_run is tested
RotateBegin_ReadsFirst ==
    /\ pc = "rot_begin"
    /\ \E ok \in Outcomes(TRUE) :
        /\ calls' = Append(calls, Call("list_access_keys", result.username,
                                       None, ok))
        /\ failures' = Failed(ok)
        /\ IF ~ok THEN RotationFails("list_access_keys failed")
           ELSE IF CapacityExceeded(iam[result.username])
           THEN RotationFails("already has 2 access keys")
           ELSE IF result.dry_run
           THEN /\ result' = DryRunResult(result)
                /\ pc' = "rot_return"
           ELSE /\ pc' = "rot_create"
                /\ UNCHANGED result
    /\ UNCHANGED <<svcVars, now, args, exitCode, execution_results, loopVars,
                   discVars, cutoff_date, cleanup_result, opVars>>
    /\ UNCHANGED suspended

\* rotate_user_key: the dry-run short cut, else the list_access_keys call and
\* the check of the number of keys
RotateBegin ==
    /\ pc = "rot_begin"
    /\ IF result.dry_run
       THEN /\ result' = DryRunResult(result)
            /\ pc' = "rot_return"
            /\ UNCHANGED <<calls, failures>>
       ELSE \E ok \in Outcomes(TRUE) :
            /\ calls' = Append(calls, Call("list_access_keys", result.username,
                                           None, ok))
            /\ failures' = Failed(ok)
            /\ IF ~ok THEN RotationFails("list_access_keys failed")
               ELSE IF CapacityExceeded(iam[result.username])
               THEN RotationFails("already has 2 access keys")
               ELSE /\ pc' = "rot_create"
                    /\ UNCHANGED result
    /\ UNCHANGED <<svcVars, now, args, exitCode, execution_results, loopVars,
                   discVars, cutoff_date, cleanup_result, opVars>>
    /\ UNCHANGED suspended

\* (mutant) the service accepts create_access_key for a user with 2 keys
RotateCreate_NoLimit ==
    /\ pc = "rot_create"
    /\ nextId <= Len(KeyIds)
    /\ \E ok \in Outcomes(TRUE) :
        /\ calls' = Append(calls, Call("create_access_key", result.username,
                                       IF ok THEN KeyIds[nextId] ELSE None, ok))
        /\ failures' = Failed(ok)
        /\ IF ok
           THEN /\ iam' = SvcCreate(iam, result.username, KeyIds[nextId], now)
                /\ nextId' = nextId + 1
                /\ result' = [result EXCEPT !.new_key_id = KeyIds[nextId]]
                /\ pc' = "rot_sleep"
           ELSE /\ RotationFails("create_access_key failed")
                /\ UNCHANGED svcVars
    /\ UNCHANGED <<now, args, exitCode, execution_results, loopVars, discVars,
                   cutoff_date, cleanup_result, opVars>>
    /\ UNCHANGED suspended

\* rotate_user_key, step 1: create_access_key
RotateCreate ==
    /\ pc = "rot_create"
    /\ nextId <= Len(KeyIds)
    /\ \E ok \in Outcomes(Len(iam[result.username]) < MaxKeysPerUser) :
        /\ calls' = Append(calls, Call("create_access_key", result.username,
                                       IF ok THEN KeyIds[nextId] ELSE None, ok))
        /\ failures' = Failed(ok)
        /\ IF ok
           THEN /\ iam' = SvcCreate(iam, result.username, KeyIds[nextId], now)
                /\ nextId' = nextId + 1
                /\ result' = [result EXCEPT !.new_key_id = KeyIds[nextId]]
                /\ pc' = "rot_sleep"
           ELSE /\ RotationFails("create_access_key failed")
                /\ UNCHANGED svcVars
    /\ UNCHANGED <<now, args, exitCode, execution_results, loopVars, discVars,
                   cutoff_date, cleanup_result, opVars>>
    /\ UNCHANGED suspended

\* (mutant) the wait for key propagation is left out
RotateSleep_NoDelay ==
    /\ pc = "rot_sleep"
    /\ pc' = "rot_update"
    /\ UNCHANGED <<svcVars, now, calls, failures, args, exitCode, execution_results,
                   loopVars, discVars, result, cutoff_date, cleanup_result, opVars>>
    /\ UNCHANGED suspended

\* rotate_user_key, step 2: time.sleep(10)
RotateSleep ==
    /\ pc = "rot_sleep"
    /\ \E t \in NowChoices : now' = t
    /\ calls' = Append(calls, Call("sleep", result.username, None, TRUE))
    /\ pc' = "rot_update"
    /\ UNCHANGED <<svcVars, failures, args, exitCode, execution_results, loopVars,
                   discVars, result, cutoff_date, cleanup_result, opVars>>
    /\ UNCHANGED suspended

\* rotate_user_key, step 3: update_access_key of the old key, then the
\* result is completed
RotateUpdate ==
    /\ pc = "rot_update"
    /\ \E ok \in Outcomes(HasKey(iam, result.username, result.old_key_id)) :
        /\ calls' = Append(calls, Call("update_access_key", result.username,
                                       result.old_key_id, ok))
        /\ failures' = Failed(ok)
        /\ IF ok
           THEN /\ iam' = SvcUpdate(iam, result.username, result.old_key_id,
                                    RetiredStatus)
                /\ result' = RotationSuccess(result)
                /\ pc' = "rot_return"
           ELSE /\ RotationFails("update_access_key failed")
                /\ UNCHANGED iam
    /\ UNCHANGED <<nextId, now, args, exitCode, execution_results, loopVars,
                   discVars, cutoff_date, cleanup_result, opVars>>
    /\ UNCHANGED suspended

\* (mutant) a failed cleanup deletion is not caught: it leaves
\* rotate_user_key as an exception
RotateCleanup_Raises ==
    /\ pc = "rot_cleanup"
    /\ \E ok \in Outcomes(HasKey(iam, result.username, CleanupTarget(result))) :
        /\ calls' = Append(calls, Call("delete_access_key", result.username,
                                       CleanupTarget(result), ok))
        /\ failures' = Failed(ok)
        /\ iam' = IF ok THEN SvcDelete(iam, result.username, CleanupTarget(result))
                  ELSE iam
        /\ IF ok
           THEN /\ pc' = "rot_return"
                /\ UNCHANGED <<exitCode, execution_results>>
           ELSE Fatal("delete_access_key failed")
    /\ UNCHANGED <<nextId, now, args, loopVars, discVars, result, cutoff_date,
                   cleanup_result, opVars>>
    /\ UNCHANGED suspended

\* rotate_user_key: the cleanup of the except clause: delete_access_key of
\* the new key; its own failure is only logged
RotateCleanup ==
    /\ pc = "rot_cleanup"
    /\ \E ok \in Outcomes(HasKey(iam, result.username, CleanupTarget(result))) :
        /\ calls' = Append(calls, Call("delete_access_key", result.username,
                                       CleanupTarget(result), ok))
        /\ failures' = Failed(ok)
        /\ iam' = IF ok THEN SvcDelete(iam, result.username, CleanupTarget(result))
                  ELSE iam
    /\ pc' = "rot_return"
    /\ UNCHANGED <<nextId, now, args, exitCode, execution_results, loopVars,
                   discVars, result, cutoff_date, cleanup_result, opVars>>
    /\ UNCHANGED suspended

\* (mutant) the loop over old_keys stops at the first rotation that failed
RotateReturn_StopsAtFailure ==
    /\ pc = "rot_return"
    /\ execution_results' = [execution_results EXCEPT
                               !.rotated_keys = Append(@, result)]
    /\ IF args.user # None
       THEN /\ keyIdx' = keyIdx + 1
            /\ pc' = "user_loop"
            /\ UNCHANGED rotIdx
       ELSE /\ rotIdx' = IF result.success THEN rotIdx + 1 ELSE Len(old_keys) + 1
            /\ pc' = "rot_loop"
            /\ UNCHANGED keyIdx
    /\ UNCHANGED <<svcVars, now, failures, calls, args, exitCode, pageIdx, userIdx,
                   keys_response, discVars, result, cutoff_date, cleanup_result,
                   opVars>>
    /\ UNCHANGED suspended

\* rotate_user_key returns; main() appends the result to rotated_keys and
\* goes on with its loop
RotateReturn ==
    /\ pc = "rot_return"
    /\ execution_results' = [execution_results EXCEPT
                               !.rotated_keys = Append(@, result)]
    /\ IF args.user # None
       THEN /\ keyIdx' = keyIdx + 1
            /\ pc' = "user_loop"
            /\ UNCHANGED rotIdx
       ELSE /\ rotIdx' = rotIdx + 1
            /\ pc' = "rot_loop"
            /\ UNCHANGED keyIdx
    /\ UNCHANGED <<svcVars, now, failures, calls, args, exitCode, pageIdx, userIdx,
                   keys_response, discVars, result, cutoff_date, cleanup_result,
                   opVars>>
    /\ UNCHANGED suspended

\* ------------------------------------------------------------ Retirement sweep
\* (mutant) a key created exactly at cutoff_date is deleted too
IsExpiredInactiveKey_Inclusive(key, cutoff) ==
    key.status = "Inactive" /\ key.create <= cutoff

\* cleanup_old_keys: the test a key must pass to be deleted
IsExpiredInactiveKey(key, cutoff) ==
    key.status = "Inactive" /\ key.create < cutoff

\* (mutant) the dry run does not list the key
WouldDelete_Skips(res, id) == res

\* cleanup_old_keys, dry run: the key is listed as deleted
WouldDelete(res, id) == [res EXCEPT !.deleted_keys = Append(@, id)]

\* cleanup_old_keys: the key was deleted and is listed
Deleted(res, id) == [res EXCEPT !.deleted_keys = Append(@, id)]

\* (mutant) the except clause empties the list of the keys already deleted
CleanupError_DropsDeleted(res, e) == [res EXCEPT !.error = e, !.deleted_keys = <<>>]

\* cleanup_old_keys: the error recorded by the except clause for exception e
CleanupError(res, e) == [res EXCEPT !.error = e]

\* main(): the paginator of the cleanup loop fetches the next page of
\* list_users; a failure ends the run
SweepPage ==
    /\ pc = "sweep_page"
    /\ pageIdx <= Len(Pages)
    /\ \E ok \in Outcomes(TRUE) :
        /\ calls' = Append(calls, Call("list_users", None, None, ok))
        /\ failures' = Failed(ok)
        /\ IF ok
           THEN /\ userIdx' = 1
                /\ pc' = "sweep_user"
                /\ UNCHANGED <<exitCode, execution_results>>
           ELSE /\ Fatal("list_users failed")
                /\ UNCHANGED userIdx
    /\ UNCHANGED <<svcVars, now, args, pageIdx, rotIdx, keys_response, keyIdx,
                   discVars, result, cutoff_date, cleanup_result, opVars>>
    /\ UNCHANGED suspended

\* cleanup_old_keys is entered for the next user: list_access_keys, then
\* cutoff_date; a failure of the call goes to the except clause
SweepUser ==
    /\ pc = "sweep_user"
    /\ LET username == Pages[pageIdx][userIdx] IN
       \E ok \in Outcomes(TRUE) :
        /\ calls' = Append(calls, Call("list_access_keys", username, None, ok))
        /\ failures' = Failed(ok)
        /\ opStart' = Len(calls)
        /\ pre' = iam
        /\ IF ok
           THEN \E t \in NowChoices :
                /\ now' = t
                /\ cutoff_date' = t - Days(DaysInactive)
                /\ keys_response' = iam[username]
                /\ keyIdx' = 1
                /\ cleanup_result' = NewCleanupResult(username, args.dry_run)
                /\ pc' = "sweep_key"
           ELSE /\ cleanup_result' =
                      CleanupError(NewCleanupResult(username, args.dry_run),
                                   "list_access_keys failed")
                /\ pc' = "sweep_return"
                /\ UNCHANGED <<now, cutoff_date, keys_response, keyIdx>>
    /\ UNCHANGED <<svcVars, args, exitCode, execution_results, pageIdx, userIdx,
                   rotIdx, discVars, result>>
    /\ UNCHANGED suspended

\* cleanup_old_keys: one key of the response: deleted (or, in a dry run,
\* only listed) when it passes the test; a failed deletion goes to the except
\* clause
SweepKey ==
    /\ pc = "sweep_key"
    /\ keyIdx <= Len(keys_response)
    /\ LET key == keys_response[keyIdx]
           username == cleanup_result.username IN
       IF ~IsExpiredInactiveKey(key, cutoff_date)
       THEN /\ keyIdx' = keyIdx + 1
            /\ UNCHANGED <<iam, calls, failures, cleanup_result, pc>>
       ELSE IF cleanup_result.dry_run
       THEN /\ cleanup_result' = WouldDelete(cleanup_result, key.id)
            /\ keyIdx' = keyIdx + 1
            /\ UNCHANGED <<iam, calls, failures, pc>>
       ELSE \E ok \in Outcomes(HasKey(iam, username, key.id)) :
            /\ calls' = Append(calls, Call("delete_access_key", username,
                                           key.id, ok))
            /\ failures' = Failed(ok)
            /\ IF ok
               THEN /\ iam' = SvcDelete(iam, username, key.id)
                    /\ cleanup_result' = Deleted(cleanup_result, key.id)
                    /\ keyIdx' = keyIdx + 1
                    /\ UNCHANGED pc
               ELSE /\ cleanup_result' =
                          CleanupError(cleanup_result, "delete_access_key failed")
                    /\ pc' = "sweep_return"
                    /\ UNCHANGED <<iam, keyIdx>>
    /\ UNCHANGED <<nextId, now, args, exitCode, execution_results, pageIdx,
                   userIdx, rotIdx, keys_response, discVars, result, cutoff_date,
                   opVars>>
    /\ UNCHANGED suspended

\* cleanup_old_keys: the loop over the keys is over: success
SweepKeysEnd ==
    /\ pc = "sweep_key"
    /\ keyIdx > Len(keys_response)
    /\ cleanup_result' = [cleanup_result EXCEPT !.success = TRUE]
    /\ pc' = "sweep_return"
    /\ UNCHANGED <<svcVars, now, failures, calls, args, exitCode,
                   execution_results, loopVars, discVars, result, cutoff_date,
                   opVars>>
    /\ UNCHANGED suspended

\* (mutant) the cleanup loop of main() stops at the first sweep that failed
SweepReturn_StopsOnFailure ==
    /\ pc = "sweep_return"
    /\ execution_results' =
          IF cleanup_result.deleted_keys # <<>>
          THEN [execution_results EXCEPT !.cleanup_results = Append(@, cleanup_result)]
          ELSE execution_results
    /\ IF ~cleanup_result.success
       THEN /\ pc' = "summary"
            /\ UNCHANGED <<pageIdx, userIdx>>
       ELSE IF userIdx < Len(Pages[pageIdx])
       THEN /\ userIdx' = userIdx + 1
            /\ pc' = "sweep_user"
            /\ UNCHANGED pageIdx
       ELSE /\ pageIdx' = pageIdx + 1
            /\ pc' = "sweep_page"
            /\ UNCHANGED userIdx
    /\ UNCHANGED <<svcVars, now, failures, calls, args, exitCode, rotIdx,
                   keys_response, keyIdx, discVars, result, cutoff_date,
                   cleanup_result, opVars>>
    /\ UNCHANGED suspended

\* cleanup_old_keys returns; main() records the result when it lists a
\* deleted key, and goes on with the next user
SweepReturn ==
    /\ pc = "sweep_return"
    /\ execution_results' =
          IF cleanup_result.deleted_keys # <<>>
          THEN [execution_results EXCEPT !.cleanup_results = Append(@, cleanup_result)]
          ELSE execution_results
    /\ IF userIdx < Len(Pages[pageIdx])
       THEN /\ userIdx' = userIdx + 1
            /\ pc' = "sweep_user"
            /\ UNCHANGED pageIdx
       ELSE /\ pageIdx' = pageIdx + 1
            /\ pc' = "sweep_page"
            /\ UNCHANGED userIdx
    /\ UNCHANGED <<svcVars, now, failures, calls, args, exitCode, rotIdx,
                   keys_response, keyIdx, discVars, result, cutoff_date,
                   cleanup_result, opVars>>
    /\ UNCHANGED suspended

\* main(): the cleanup loop has seen every page
SweepEnd ==
    /\ pc = "sweep_page"
    /\ pageIdx > Len(Pages)
    /\ pc' = "summary"
    /\ UNCHANGED <<svcVars, now, failures, calls, args, exitCode,
                   execution_results, loopVars, discVars, result, cutoff_date,
                   cleanup_result, opVars>>
    /\ UNCHANGED suspended

\* ------------------------------------------------------------ main(): summary and exit
RECURSIVE CountSuccess(_, _)
\* main(): sum(1 for r in rotated_keys if r['success'] == flag)
CountSuccess(results, flag) ==
    IF results = <<>> THEN 0
    ELSE (IF Head(results).success = flag THEN 1 ELSE 0)
         + CountSuccess(Tail(results), flag)

\* (mutant) total_keys_processed counts the successful rotations only
Summary_CountsSuccessOnly(er) ==
    [total_keys_processed |-> CountSuccess(er.rotated_keys, TRUE),
     successful_rotations |-> CountSuccess(er.rotated_keys, TRUE),
     failed_rotations |-> CountSuccess(er.rotated_keys, FALSE),
     cleanup_operations |-> Len(er.cleanup_results)]

\* main(): the summary dictionary
Summary(er) ==
    [total_keys_processed |-> Len(er.rotated_keys),
     successful_rotations |-> CountSuccess(er.rotated_keys, TRUE),
     failed_rotations |-> CountSuccess(er.rotated_keys, FALSE),
     cleanup_operations |-> Len(er.cleanup_results)]

\* (mutant) the exit status ignores the failed rotations
ExitStatus_AlwaysZero(failed_rotations) == 0

\* main(): the exit status
ExitStatus(failed_rotations) == IF failed_rotations > 0 THEN 1 ELSE 0

\* main(): the summary is generated and the process exits
Summarise ==
    /\ pc = "summary"
    /\ execution_results' = [execution_results EXCEPT
                               !.summary = Summary(execution_results)]
    /\ exitCode' = << ExitStatus(CountSuccess(execution_results.rotated_keys, FALSE)) >>
    /\ pc' = "done"
    /\ UNCHANGED <<svcVars, now, failures, calls, args, loopVars, discVars, result,
                   cutoff_date, cleanup_result, opVars>>
    /\ UNCHANGED suspended

Next ==
    \/ Connect
    \/ DiscoveryBegin
    \/ DiscoveryPage
    \/ DiscoveryUser
    \/ DiscoveryReturn
    \/ RotationLoop
    \/ RotationLoopEnd
    \/ UserList
    \/ UserLoop
    \/ UserLoopEnd
    \/ RotateBegin
    \/ RotateCreate
    \/ RotateSleep
    \/ RotateUpdate
    \/ RotateCleanup
    \/ RotateReturn
    \/ SweepPage
    \/ SweepUser
    \/ SweepKey
    \/ SweepKeysEnd
    \/ SweepReturn
    \/ SweepEnd
    \/ Summarise

Spec == Init /\ [][Next]_vars

\* ------------------------------------------------------------ the class used directly
\* A client (as the integration tests do) builds an IAMKeyRotator and calls
\* rotate_user_key and cleanup_old_keys on one user, in any order, with the
\* key ids it knows of and either value of dry_run; it keeps the results in
\* rotated_keys and cleanup_results. args.dry_run holds the dry_run argument
\* of the call under way.
LibUser == "u1"

LibInit ==
    /\ iam \in { f \in [Users -> InitKeyLists(KeyIds[1], KeyIds[2])] :
                   f["u2"] = <<>> }
    /\ now = 0
    /\ nextId = 5
    /\ failures = 0
    /\ calls = <<>>
    /\ args = [dry_run |-> FALSE, days_threshold |-> DefaultDaysThreshold,
               user |-> None, cleanup_inactive |-> TRUE,
               pages |-> << <<"u1", "u2">> >>]
    /\ pc = "lib_idle"
    /\ exitCode = <<>>
    /\ execution_results = NewExecutionResults
    /\ pageIdx = 1
    /\ userIdx = 1
    /\ threshold_date = 0
    /\ old_keys = <<>>
    /\ rotIdx = 1
    /\ keys_response = <<>>
    /\ keyIdx = 1
    /\ result = NewRotationResult(None, None, FALSE)
    /\ cutoff_date = 0
    /\ cleanup_result = NewCleanupResult(None, FALSE)
    /\ opStart = 0
    /\ pre = iam
    /\ suspended = NoRun

\* the calls the client has made so far
LibCallsMade ==
    Len(execution_results.rotated_keys) + Len(execution_results.cleanup_results)

\* the key ids of user u the client knows of: those the user holds and those
\* it passed to rotate_user_key before
KnownKeyIds(u) ==
    KeyIdsOf(iam[u])
    \cup { execution_results.rotated_keys[i].old_key_id :
             i \in { j \in 1..Len(execution_results.rotated_keys) :
                       execution_results.rotated_keys[j].username = u } }

\* the client calls rotate_user_key(username, old_key_id, dry_run)
LibRotate ==
    /\ pc = "lib_idle"
    /\ LibCallsMade < MaxLibCalls
    /\ \E old_key_id \in KnownKeyIds(LibUser) : \E dry_run \in BOOLEAN :
        /\ result' = NewRotationResult(LibUser, old_key_id, dry_run)
        /\ args' = [args EXCEPT !.dry_run = dry_run]
    /\ opStart' = Len(calls)
    /\ pre' = iam
    /\ pc' = "rot_begin"
    /\ UNCHANGED <<svcVars, now, failures, calls, exitCode, execution_results,
                   loopVars, discVars, cutoff_date, cleanup_result>>
    /\ UNCHANGED suspended

\* the client calls cleanup_old_keys(username, dry_run=dry_run)
LibSweep ==
    /\ pc = "lib_idle"
    /\ LibCallsMade < MaxLibCalls
    /\ \E dry_run \in BOOLEAN : args' = [args EXCEPT !.dry_run = dry_run]
    /\ pageIdx' = 1
    /\ userIdx' = CHOOSE i \in 1..Len(Pages[1]) : Pages[1][i] = LibUser
    /\ pc' = "sweep_user"
    /\ UNCHANGED <<svcVars, now, failures, calls, exitCode, execution_results,
                   rotIdx, keys_response, keyIdx, discVars, result, cutoff_date,
                   cleanup_result, opVars>>
    /\ UNCHANGED suspended

\* rotate_user_key returns its result to the client
LibRotateReturn ==
    /\ pc = "rot_return"
    /\ execution_results' = [execution_results EXCEPT
                               !.rotated_keys = Append(@, result)]
    /\ pc' = "lib_idle"
    /\ UNCHANGED <<svcVars, now, failures, calls, args, exitCode, loopVars,
                   discVars, result, cutoff_date, cleanup_result, opVars>>
    /\ UNCHANGED suspended

\* cleanup_old_keys returns its result to the client
LibSweepReturn ==
    /\ pc = "sweep_return"
    /\ execution_results' = [execution_results EXCEPT
                               !.cleanup_results = Append(@, cleanup_result)]
    /\ pc' = "lib_idle"
    /\ UNCHANGED <<svcVars, now, failures, calls, args, exitCode, loopVars,
                   discVars, result, cutoff_date, cleanup_result, opVars>>
    /\ UNCHANGED suspended

LibNext ==
    \/ LibRotate
    \/ LibSweep
    \/ RotateBegin
    \/ RotateCreate
    \/ RotateSleep
    \/ RotateUpdate
    \/ RotateCleanup
    \/ LibRotateReturn
    \/ SweepUser
    \/ SweepKey
    \/ SweepKeysEnd
    \/ LibSweepReturn

LibSpec == LibInit /\ [][LibNext]_vars

\* the class used directly, every call running on until it returns
LibFairSpec == LibSpec /\ WF_vars(LibNext)

\* ------------------------------------------------ two overlapping runs
\* Two processes run main() against the same account. The service state
\* (iam, nextId), the clock and the failure budget are shared; every other
\* variable is local to a run. The run that takes steps has its local state
\* in the variables; the local state of the other run waits in suspended.

\* the local variables of the run that takes steps, as one record
RunState ==
    [args |-> args, pc |-> pc, calls |-> calls, exitCode |-> exitCode,
     execution_results |-> execution_results, pageIdx |-> pageIdx,
     userIdx |-> userIdx, threshold_date |-> threshold_date,
     old_keys |-> old_keys, rotIdx |-> rotIdx, keys_response |-> keys_response,
     keyIdx |-> keyIdx, result |-> result, cutoff_date |-> cutoff_date,
     cleanup_result |-> cleanup_result, opStart |-> opStart, pre |-> pre]

\* the command lines of the overlapping runs
ConcArgs ==
    [dry_run : BOOLEAN, days_threshold : {DefaultDaysThreshold},
     user : {None}, cleanup_inactive : {TRUE},
     pages : { << <<"u1", "u2">> >> }]

\* Both runs are at the first statement of main().
ConcInit ==
    /\ iam \in { f \in [Users -> InitKeyLists(KeyIds[1], KeyIds[2])] :
                   f["u2"] = <<>> }
    /\ now = MaxTicks
    /\ nextId = 5
    /\ failures = 0
    /\ calls = <<>>
    /\ args \in ConcArgs
    /\ pc = "start"
    /\ exitCode = <<>>
    /\ execution_results = NewExecutionResults
    /\ pageIdx = 1
    /\ userIdx = 1
    /\ threshold_date = 0
    /\ old_keys = <<>>
    /\ rotIdx = 1
    /\ keys_response = <<>>
    /\ keyIdx = 1
    /\ result = NewRotationResult(None, None, FALSE)
    /\ cutoff_date = 0
    /\ cleanup_result = NewCleanupResult(None, FALSE)
    /\ opStart = 0
    /\ pre = iam
    /\ suspended = RunState

\* The scheduler lets the other run take the next steps: between any two
\* steps of a run the other run may make any number of its own.
ConcSwitch ==
    /\ suspended # NoRun
    /\ suspended.pc # "done"
    /\ suspended' = RunState
    /\ args' = suspended.args
    /\ pc' = suspended.pc
    /\ calls' = suspended.calls
    /\ exitCode' = suspended.exitCode
    /\ execution_results' = suspended.execution_results
    /\ pageIdx' = suspended.pageIdx
    /\ userIdx' = suspended.userIdx
    /\ threshold_date' = suspended.threshold_date
    /\ old_keys' = suspended.old_keys
    /\ rotIdx' = suspended.rotIdx
    /\ keys_response' = suspended.keys_response
    /\ keyIdx' = suspended.keyIdx
    /\ result' = suspended.result
    /\ cutoff_date' = suspended.cutoff_date
    /\ cleanup_result' = suspended.cleanup_result
    /\ opStart' = suspended.opStart
    /\ pre' = suspended.pre
    /\ UNCHANGED <<svcVars, now, failures>>

ConcNext ==
    \/ ConcSwitch
    \/ Connect
    \/ DiscoveryBegin
    \/ DiscoveryPage
    \/ DiscoveryUser
    \/ DiscoveryReturn
    \/ RotationLoop
    \/ RotationLoopEnd
    \/ RotateBegin
    \/ RotateCreate
    \/ RotateSleep
    \/ RotateUpdate
    \/ RotateCleanup
    \/ RotateReturn
    \/ SweepPage
    \/ SweepUser
    \/ SweepKey
    \/ SweepKeysEnd
    \/ SweepReturn
    \/ SweepEnd
    \/ Summarise

ConcSpec == ConcInit /\ [][ConcNext]_vars


\* ------------------------------------------------------------ properties
\* The remote calls (and sleeps) of the operation under way.
AttemptCalls == SubSeq(calls, opStart + 1, Len(calls))
\* The positions in AttemptCalls of the calls of operation op.
CallsAt(op) == { i \in 1..Len(AttemptCalls) : AttemptCalls[i].op = op }
MutatingOps == {"create_access_key", "update_access_key", "delete_access_key"}
MutatingCalls == { i \in 1..Len(AttemptCalls) : AttemptCalls[i].op \in MutatingOps }
InRotation ==
    pc \in {"rot_begin", "rot_create", "rot_sleep", "rot_update", "rot_cleanup",
            "rot_return"}
ActiveKeys(keys) == { k \in Range(keys) : k.status = "Active" }
\* rotate_user_key is about to return the result of a live attempt
LiveRotationReturns == pc = "rot_return" /\ ~result.dry_run

\* C1: every successful live rotation has issued exactly one
\* create_access_key and exactly one update_access_key (of the old key, which
\* is now Inactive), the create before the update, and its result carries the
\* new key id and the secret of the new key.
C1_SuccessfulRotation ==
    (LiveRotationReturns /\ result.success) =>
        /\ Cardinality(CallsAt("create_access_key")) = 1
        /\ Cardinality(CallsAt("update_access_key")) = 1
        /\ \A i \in CallsAt("create_access_key") :
             \A j \in CallsAt("update_access_key") :
               /\ i < j
               /\ AttemptCalls[i].ok /\ AttemptCalls[j].ok
               /\ AttemptCalls[i].key = result.new_key_id
               /\ AttemptCalls[j].key = result.old_key_id
        /\ KeyOf(iam, result.username, result.old_key_id).status = "Inactive"
        /\ result.new_key_id \notin {None, DRY_RUN_KEY_ID}
        /\ result.new_secret_key # Absent
        /\ result.new_secret_key = SecretOf(result.new_key_id)

C1_Witness == LiveRotationReturns /\ result.success

\* C2: while a live rotation of a key that was Active when the attempt began
\* is under way, the user holds at least one Active key in every state,
\* whichever remote call fails.
C2_AlwaysAnActiveKey ==
    (/\ InRotation
     /\ ~result.dry_run
     /\ HasKey(pre, result.username, result.old_key_id)
     /\ KeyOf(pre, result.username, result.old_key_id).status = "Active")
    => ActiveKeys(iam[result.username]) # {}

\* the old key was deactivated, the new key is the Active one
C2_Witness ==
    /\ LiveRotationReturns
    /\ KeyOf(pre, result.username, result.old_key_id).status = "Active"
    /\ KeyOf(iam, result.username, result.old_key_id).status = "Inactive"

\* the update_access_key of the attempt failed (after a create that succeeded)
RetirementFailed ==
    \E j \in CallsAt("update_access_key") :
        /\ ~AttemptCalls[j].ok
        /\ \E i \in CallsAt("create_access_key") : i < j /\ AttemptCalls[i].ok

\* C3: when update_access_key fails after the new key was created, exactly
\* one delete_access_key is attempted, of the new key, and the result is
\* success = FALSE with the error of the failed update, whether that deletion
\* succeeded or failed.
C3_RetirementFailure ==
    (LiveRotationReturns /\ RetirementFailed) =>
        /\ Cardinality(CallsAt("delete_access_key")) = 1
        /\ \A d \in CallsAt("delete_access_key") :
             /\ AttemptCalls[d].key = result.new_key_id
             /\ AttemptCalls[d].user = result.username
             /\ \A j \in CallsAt("update_access_key") : j < d
        /\ result.new_key_id \notin {None, DRY_RUN_KEY_ID}
        /\ result.success = FALSE
        /\ result.error = "update_access_key failed"
        /\ result.new_secret_key = Absent

\* the retirement failed and the compensating deletion failed too
C3_Witness ==
    /\ LiveRotationReturns
    /\ RetirementFailed
    /\ \E d \in CallsAt("delete_access_key") : ~AttemptCalls[d].ok

\* the user held two Active keys when the attempt began
HadTwoActiveKeys ==
    /\ Len(pre[result.username]) = 2
    /\ Cardinality(ActiveKeys(pre[result.username])) = 2

\* C4 as stated: a live rotation for a user holding two Active keys always
\* returns success = FALSE with the capacity error and issues no mutating call.
C4_Original ==
    (LiveRotationReturns /\ HadTwoActiveKeys) =>
        /\ result.success = FALSE
        /\ result.error = "already has 2 access keys"
        /\ MutatingCalls = {}

\* C4 as amended: a live rotation for a user holding two Active keys always
\* returns success = FALSE, issues no mutating call and leaves the keys as
\* they were; the error is the capacity error when the list_access_keys call
\* of the check succeeded, and the error of that call when it failed.
C4_CapacityFailure ==
    (LiveRotationReturns /\ HadTwoActiveKeys) =>
        /\ result.success = FALSE
        /\ MutatingCalls = {}
        /\ result.new_key_id = None
        /\ iam = pre
        /\ Len(AttemptCalls) = 1
        /\ AttemptCalls[1].op = "list_access_keys"
        /\ result.error = IF AttemptCalls[1].ok THEN "already has 2 access keys"
                          ELSE "list_access_keys failed"

C4_Witness ==
    /\ LiveRotationReturns
    /\ HadTwoActiveKeys
    /\ result.error = "already has 2 access keys"

\* C5: a dry-run rotation returns success = TRUE with the new key id
\* DRY_RUN_KEY_ID, has called neither create_access_key nor update_access_key,
\* and leaves the service as it was.
C5_DryRunRotation ==
    (pc = "rot_return" /\ result.dry_run) =>
        /\ result.success = TRUE
        /\ result.new_key_id = DRY_RUN_KEY_ID
        /\ result.error = None
        /\ CallsAt("create_access_key") = {}
        /\ CallsAt("update_access_key") = {}
        /\ MutatingCalls = {}
        /\ iam = pre

\* a dry-run rotation for a user for whom a live one would be refused
C5_Witness ==
    /\ pc = "rot_return"
    /\ result.dry_run
    /\ Len(iam[result.username]) = 2

\* get_users_with_old_keys has just returned to main()
DiscoveryReturned ==
    pc = "rot_loop" /\ rotIdx = 1 /\ execution_results.rotated_keys = <<>>
\* every remote call of the operation under way succeeded
NoCallFailed == \A i \in 1..Len(AttemptCalls) : AttemptCalls[i].ok
\* the time read when threshold_date was computed
DiscoveryNow == threshold_date + Days(args.days_threshold)
DiscoveredPairs ==
    { <<old_keys[i].username, old_keys[i].access_key_id>> : i \in 1..Len(old_keys) }
\* the Active keys of svc older than the threshold at time t
OldActivePairs(svc, t) ==
    UNION { { <<u, k.id>> : k \in { x \in Range(svc[u]) :
                                      /\ x.status = "Active"
                                      /\ t - x.create > Days(args.days_threshold) } }
            : u \in Users }

\* C6: when no lookup has failed, Discovery returns exactly the (user, key)
\* pairs of the Active keys whose age is strictly greater than the threshold,
\* each once: a key aged exactly the threshold and an Inactive key of any age
\* are not returned.
C6_DiscoveryExact ==
    (DiscoveryReturned /\ NoCallFailed) =>
        /\ DiscoveredPairs = OldActivePairs(iam, DiscoveryNow)
        /\ Len(old_keys) = Cardinality(DiscoveredPairs)
        /\ \A i \in 1..Len(old_keys) :
             /\ old_keys[i].status = "Active"
             /\ old_keys[i].create_date =
                  KeyOf(iam, old_keys[i].username, old_keys[i].access_key_id).create

\* Discovery returned a key, left out an Active key aged exactly the
\* threshold and left out an Inactive key older than the threshold
C6_Witness ==
    /\ DiscoveryReturned
    /\ NoCallFailed
    /\ old_keys # <<>>
    /\ \E u \in Users : \E k \in Range(iam[u]) :
         /\ k.status = "Active"
         /\ DiscoveryNow - k.create = Days(args.days_threshold)
         /\ <<u, k.id>> \notin DiscoveredPairs
    /\ \E u \in Users : \E k \in Range(iam[u]) :
         /\ k.status = "Inactive"
         /\ DiscoveryNow - k.create > Days(args.days_threshold)
         /\ <<u, k.id>> \notin DiscoveredPairs

\* cleanup_old_keys is under way or about to return
InSweep == pc \in {"sweep_key", "sweep_return"}
\* the list_access_keys call of the sweep under way succeeded
SweepListed == InSweep /\ AttemptCalls[1].ok
\* the time read when cutoff_date was computed
SweepNow == cutoff_date + Days(DaysInactive)
\* the ids the sweep under way has deleted or tried to delete
SweepTargets ==
    Range(cleanup_result.deleted_keys)
    \cup { AttemptCalls[i].key : i \in CallsAt("delete_access_key") }

\* C7: the sweep of a user deletes, tries to delete or lists only keys of
\* that user that were Inactive and created strictly before now minus the
\* grace period; Active keys, Inactive keys aged the grace period or less,
\* and the keys of other users stay as they were.
C7_SweepOnlyExpiredInactive ==
    InSweep =>
      LET u == cleanup_result.username IN
        /\ \A i \in CallsAt("delete_access_key") : AttemptCalls[i].user = u
        /\ \A v \in Users \ {u} : iam[v] = pre[v]
        /\ ~SweepListed => (SweepTargets = {} /\ iam = pre)
        /\ SweepListed =>
             /\ \A id \in SweepTargets :
                  /\ HasKey(pre, u, id)
                  /\ KeyOf(pre, u, id).status = "Inactive"
                  /\ SweepNow - KeyOf(pre, u, id).create > Days(DaysInactive)
             /\ \A k \in Range(pre[u]) :
                  (k.status = "Active" \/ SweepNow - k.create <= Days(DaysInactive))
                  => (k \in Range(iam[u]) /\ k.id \notin SweepTargets)

\* a live sweep deleted a key and kept an Inactive key aged exactly the
\* grace period
C7_Witness ==
    /\ pc = "sweep_return"
    /\ ~cleanup_result.dry_run
    /\ cleanup_result.deleted_keys # <<>>
    /\ \E k \in Range(pre[cleanup_result.username]) :
         /\ k.status = "Inactive"
         /\ SweepNow - k.create = Days(DaysInactive)
         /\ k \in Range(iam[cleanup_result.username])

\* C8 as stated: a key that a rotation of this run deactivated is not deleted
\* in the same run (it has been Inactive for less than the grace period).
C8_DeactivatedKeyKept ==
    \A i \in 1..Len(calls) :
        (calls[i].op = "update_access_key" /\ calls[i].ok)
        => HasKey(iam, calls[i].user, calls[i].key)

RECURSIVE ExpiredInactiveIds(_, _)
\* the ids, in order, of the Inactive keys of keys created before cutoff
ExpiredInactiveIds(keys, cutoff) ==
    IF keys = <<>> THEN <<>>
    ELSE (IF Head(keys).status = "Inactive" /\ Head(keys).create < cutoff
          THEN << Head(keys).id >> ELSE <<>>)
         \o ExpiredInactiveIds(Tail(keys), cutoff)

SingleOldActiveKey(keys) ==
    /\ Len(keys) = 1
    /\ keys[1].status = "Active"
    /\ DiscoveryNow - keys[1].create > Days(args.days_threshold)

\* C10: in a live run without --user in which no remote call has failed, for
\* a user holding exactly one key, Active and older than the threshold:
\* Discovery returns that key, and its rotation returns success with a new key
\* id that differs from the old one, the old key Inactive and the new key
\* existing and Active.
C10_EndToEndRotation ==
    /\ (DiscoveryReturned /\ failures = 0) =>
          \A u \in Users : SingleOldActiveKey(iam[u]) =>
              <<u, iam[u][1].id>> \in DiscoveredPairs
    /\ (/\ LiveRotationReturns
        /\ args.user = None
        /\ failures = 0
        /\ SingleOldActiveKey(pre[result.username])) =>
          /\ result.old_key_id = pre[result.username][1].id
          /\ result.success
          /\ result.new_key_id \notin {None, DRY_RUN_KEY_ID, result.old_key_id}
          /\ iam[result.username] =
               << [pre[result.username][1] EXCEPT !.status = "Inactive"],
                  Key(result.new_key_id, "Active",
                      KeyOf(iam, result.username, result.new_key_id).create) >>

C10_Witness ==
    /\ LiveRotationReturns
    /\ args.user = None
    /\ failures = 0
    /\ SingleOldActiveKey(pre[result.username])
    /\ result.success

\* the list_access_keys calls of the run so far, in order
ListCalls == SelectSeq(calls, LAMBDA c : c.op = "list_access_keys")
\* main() has left the loop over old_keys and has not been aborted
BatchDone ==
    /\ args.user = None
    /\ \/ pc \in {"sweep_page", "sweep_user", "sweep_key", "sweep_return", "summary"}
       \/ pc = "done" /\ execution_results.errors = <<>>

\* C11: in a run without --user, the results in rotated_keys are those of the
\* keys Discovery returned, one each and in that order, whether earlier
\* rotations failed or not, and when the loop is over every key returned has
\* its result; a live run has made one attempt (one list_access_keys call of
\* the capacity check) per result, in that order. No attempt changes the keys
\* of the user of a record still to come, and a live attempt succeeds exactly
\* when none of its own calls failed and its user held fewer than two keys.
C11_BatchIndependence ==
    args.user = None =>
        /\ Len(execution_results.rotated_keys) = rotIdx - 1
        /\ \A i \in 1..Len(execution_results.rotated_keys) :
             /\ execution_results.rotated_keys[i].username = old_keys[i].username
             /\ execution_results.rotated_keys[i].old_key_id =
                  old_keys[i].access_key_id
        /\ BatchDone => Len(execution_results.rotated_keys) = Len(old_keys)
        /\ (pc = "rot_loop" /\ ~args.dry_run) =>
             /\ Len(ListCalls) = Cardinality(Users) + rotIdx - 1
             /\ \A i \in 1..(rotIdx - 1) :
                  ListCalls[Cardinality(Users) + i].user = old_keys[i].username
        /\ InRotation =>
             \A j \in (rotIdx + 1)..Len(old_keys) :
                 iam[old_keys[j].username] = pre[old_keys[j].username]
        /\ LiveRotationReturns =>
             (result.success <=>
                (NoCallFailed /\ Len(pre[result.username]) < MaxKeysPerUser))

\* the first rotation of the batch failed, the second succeeded
C11_Witness ==
    /\ args.user = None
    /\ pc = "rot_loop"
    /\ ~args.dry_run
    /\ Len(execution_results.rotated_keys) = 2
    /\ ~execution_results.rotated_keys[1].success
    /\ execution_results.rotated_keys[2].success

\* the users whose list_access_keys call failed in the operation under way
ListFailedUsers ==
    { AttemptCalls[i].user :
        i \in { j \in CallsAt("list_access_keys") : ~AttemptCalls[j].ok } }

\* C12: a failed list_access_keys for a user does not end Discovery: when
\* Discovery returns, list_access_keys has been called once for every user of
\* every page, and the records returned are exactly those of the old Active
\* keys of the users whose call succeeded, each once; the failure is not an
\* error of the run.
C12_DiscoverySkipsFailedUser ==
    /\ DiscoveryReturned =>
          /\ \A u \in Users :
               Cardinality({ i \in CallsAt("list_access_keys") :
                               AttemptCalls[i].user = u }) = 1
          /\ DiscoveredPairs =
               { p \in OldActivePairs(iam, DiscoveryNow) : p[1] \notin ListFailedUsers }
          /\ Len(old_keys) = Cardinality(DiscoveredPairs)
    /\ args.user = None =>
          "list_access_keys failed" \notin Range(execution_results.errors)

\* the lookup of the first user failed, both users hold an old Active key and
\* the key of the second user, on the same page, is returned
C12_Witness ==
    /\ DiscoveryReturned
    /\ Len(Pages) = 1
    /\ ListFailedUsers = {"u1"}
    /\ \E p \in OldActivePairs(iam, DiscoveryNow) : p[1] = "u1"
    /\ \E p \in DiscoveredPairs : p[1] = "u2"

\* a list_users call of Discovery has failed: in a run without --user, a
\* failed list_users that fewer successful ones precede than there are pages
DiscoveryAborted ==
    /\ args.user = None
    /\ \E i \in 1..Len(calls) :
         /\ calls[i].op = "list_users"
         /\ ~calls[i].ok
         /\ Cardinality({ j \in 1..(i - 1) :
                            calls[j].op = "list_users" /\ calls[j].ok }) < Len(Pages)

\* C13: when a list_users call of Discovery fails, on whichever page, the run
\* is over at once: the failed call is its last call, main() has exited with
\* status 1 and the error recorded, no rotation was attempted (rotated_keys is
\* empty although records of earlier pages had been found), no mutating call
\* was made and the service is as it was.
C13_DiscoveryAborts ==
    DiscoveryAborted =>
        /\ pc = "done"
        /\ exitCode = <<1>>
        /\ execution_results.errors = << "list_users failed" >>
        /\ execution_results.rotated_keys = <<>>
        /\ execution_results.cleanup_results = <<>>
        /\ rotIdx = 1
        /\ calls[Len(calls)] = Call("list_users", None, None, FALSE)
        /\ \A i \in 1..Len(calls) :
             calls[i].op \in {"get_account_summary", "list_users", "list_access_keys"}
        /\ iam = pre

\* list_users failed on the second page, after the first page had yielded a
\* record
C13_Witness ==
    /\ DiscoveryAborted
    /\ pageIdx = 2
    /\ old_keys # <<>>

\* a rotation result recorded in the run has success = FALSE
SomeRotationFailed ==
    \E i \in 1..Len(execution_results.rotated_keys) :
        ~execution_results.rotated_keys[i].success
\* a call whose failure main() does not survive has failed: the connection
\* test, a list_users, or (with --user) the list_access_keys of main()
FatalCallFailed ==
    \E i \in 1..Len(calls) :
        /\ ~calls[i].ok
        /\ \/ calls[i].op \in {"get_account_summary", "list_users"}
           \/ calls[i].op = "list_access_keys" /\ args.user # None /\ i = 2

\* C14 as stated: the exit status is non-zero exactly when a recorded
\* rotation result has success = FALSE.
C14_Original ==
    pc = "done" => (exitCode # <<0>> <=> SomeRotationFailed)

\* C14 as amended: the exit status is 1 exactly when a recorded rotation
\* result has success = FALSE or the run was ended by a failed connection
\* test, list_users or (with --user) list_access_keys of main(), and 0
\* otherwise: a failed sweep of a user or a user skipped by Discovery never
\* makes it non-zero. No status is set before the run is over.
C14_ExitStatus ==
    /\ pc # "done" => exitCode = <<>>
    /\ pc = "done" =>
          /\ exitCode \in { <<0>>, <<1>> }
          /\ exitCode = <<1>> <=> (SomeRotationFailed \/ FatalCallFailed)
          /\ FatalCallFailed <=> execution_results.errors # <<>>

\* a run that exits with status 0 although Discovery skipped a user and a
\* deletion of the sweep failed
C14_Witness ==
    /\ pc = "done"
    /\ exitCode = <<0>>
    /\ args.user = None
    /\ \E i \in 1..Len(calls) : calls[i].op = "delete_access_key" /\ ~calls[i].ok
    /\ \E j \in 1..(1 + Len(Pages) + Cardinality(Users)) :
         j <= Len(calls) /\ calls[j].op = "list_access_keys" /\ ~calls[j].ok

\* the create_access_key call of the attempt under way has failed
CreationFailed ==
    \E i \in CallsAt("create_access_key") : ~AttemptCalls[i].ok

\* C15: once the create_access_key call of a live rotation has failed, the
\* attempt is about to return: the failed create is its last call, no
\* update_access_key and no delete_access_key was issued, the result has
\* success = FALSE, the error of the create, no new key id and no secret, and
\* the service is as it was when the attempt began.
C15_CreationFailure ==
    (InRotation /\ ~result.dry_run /\ CreationFailed) =>
        /\ pc = "rot_return"
        /\ AttemptCalls[Len(AttemptCalls)].op = "create_access_key"
        /\ Cardinality(CallsAt("create_access_key")) = 1
        /\ CallsAt("update_access_key") = {}
        /\ CallsAt("delete_access_key") = {}
        /\ result.success = FALSE
        /\ result.error = "create_access_key failed"
        /\ result.new_key_id = None
        /\ result.new_secret_key = Absent
        /\ iam = pre

\* the create failed for a user holding one Active key
C15_Witness ==
    /\ LiveRotationReturns
    /\ CreationFailed
    /\ Cardinality(ActiveKeys(iam[result.username])) = 1

\* a live attempt is about to return and the list_access_keys call of its
\* capacity check succeeded
CapacityChecked == LiveRotationReturns /\ AttemptCalls[1].ok
\* the user held one Active and one Inactive key when the attempt began
HadOneActiveOneInactive ==
    /\ Len(pre[result.username]) = 2
    /\ Cardinality(ActiveKeys(pre[result.username])) = 1

\* C16 as stated: the capacity check fails the attempt exactly when the user
\* holds two or more Active keys, and an attempt for a user holding one Active
\* and one Inactive key goes on to create_access_key.
C16_Original ==
    CapacityChecked =>
        /\ result.error = "already has 2 access keys"
             <=> Cardinality(ActiveKeys(pre[result.username])) >= MaxKeysPerUser
        /\ HadOneActiveOneInactive => CallsAt("create_access_key") # {}

\* C16 as amended: the capacity check counts the keys of the user, Active or
\* Inactive, and fails the attempt exactly when there are two or more: an
\* attempt for a user holding one Active and one Inactive key fails with the
\* capacity error and issues no other call, and an attempt for a user holding
\* fewer than two keys goes on to create_access_key.
C16_CapacityCheck ==
    CapacityChecked =>
        /\ result.error = "already has 2 access keys"
             <=> Len(pre[result.username]) >= MaxKeysPerUser
        /\ Len(pre[result.username]) >= MaxKeysPerUser =>
             (Len(AttemptCalls) = 1 /\ ~result.success /\ iam = pre)
        /\ Len(pre[result.username]) < MaxKeysPerUser =>
             CallsAt("create_access_key") # {}

\* the attempt of the Active key of a user holding one Active and one Inactive
\* key was refused by the capacity check
C16_Witness ==
    /\ CapacityChecked
    /\ HadOneActiveOneInactive
    /\ KeyOf(pre, result.username, result.old_key_id).status = "Active"
    /\ result.error = "already has 2 access keys"

\* a delete_access_key call of the sweep under way has failed
DeletionFailed ==
    InSweep /\ \E i \in CallsAt("delete_access_key") : ~AttemptCalls[i].ok

\* C17: once a delete_access_key of a live sweep has failed, the sweep of
\* that user is about to return: the failed call is its last call, the result
\* has success = FALSE and the error of the call, deleted_keys lists exactly
\* the keys deleted before it (the expired Inactive keys that precede the one
\* whose deletion failed, in order), and the user holds the keys held before
\* the sweep except those listed.
C17_SweepDeletionFailure ==
    DeletionFailed =>
      LET u == cleanup_result.username
          expired == ExpiredInactiveIds(pre[u], cutoff_date)
          n == Len(cleanup_result.deleted_keys)
      IN  /\ pc = "sweep_return"
          /\ ~cleanup_result.dry_run
          /\ ~AttemptCalls[Len(AttemptCalls)].ok
          /\ Cardinality({ i \in CallsAt("delete_access_key") :
                             ~AttemptCalls[i].ok }) = 1
          /\ cleanup_result.success = FALSE
          /\ cleanup_result.error = "delete_access_key failed"
          /\ n < Len(expired)
          /\ cleanup_result.deleted_keys = SubSeq(expired, 1, n)
          /\ AttemptCalls[Len(AttemptCalls)].key = expired[n + 1]
          /\ Cardinality(CallsAt("delete_access_key")) = n + 1
          /\ iam[u] = SelectSeq(pre[u],
                                LAMBDA k : k.id \notin Range(cleanup_result.deleted_keys))

\* the second deletion of a sweep failed after the first had succeeded
C17_Witness ==
    /\ DeletionFailed
    /\ Len(cleanup_result.deleted_keys) = 1
    /\ Len(iam[cleanup_result.username]) = 1

\* the position in calls of the first list_users of the cleanup loop of
\* main(): the list_users that as many others precede as Discovery fetched
\* pages (none with --user); past the end of calls when there is none
SweepFrom ==
    LET listings == { i \in 1..Len(calls) : calls[i].op = "list_users" }
        fetched == IF args.user = None THEN Len(Pages) ELSE 0
        first == { i \in listings :
                     Cardinality({ j \in listings : j < i }) = fetched }
    IN  IF first = {} THEN Len(calls) + 1 ELSE CHOOSE i \in first : TRUE
\* the positions in calls of the calls of operation op for user u made by
\* the cleanup loop
SweepCallsAt(op, u) ==
    { i \in SweepFrom..Len(calls) : calls[i].op = op /\ calls[i].user = u }
\* the cleanup loop of main() is over and the run was not aborted
SweepLoopDone ==
    /\ args.cleanup_inactive
    /\ \/ pc = "summary"
       \/ pc = "done" /\ execution_results.errors = <<>>
\* the sweep of user u made by the cleanup loop failed
SweepFailedFor(u) ==
    \/ \E i \in SweepCallsAt("list_access_keys", u) : ~calls[i].ok
    \/ \E i \in SweepCallsAt("delete_access_key", u) : ~calls[i].ok

\* C18: a failed sweep of one user ends that sweep only. When the cleanup
\* loop is over, cleanup_old_keys has been called once for every user,
\* whichever sweeps failed; the sweep of a user never changes the keys of
\* another user, and a live sweep that succeeds has deleted exactly the
\* expired Inactive keys its user held when it began, whether or not the sweep
\* of an earlier user failed.
C18_SweepFailureIsLocal ==
    /\ SweepLoopDone =>
          \A u \in Users : Cardinality(SweepCallsAt("list_access_keys", u)) = 1
    /\ InSweep =>
          \A v \in Users \ {cleanup_result.username} : iam[v] = pre[v]
    /\ (pc = "sweep_return" /\ cleanup_result.success /\ ~cleanup_result.dry_run) =>
          LET u == cleanup_result.username
              expired == ExpiredInactiveIds(pre[u], cutoff_date)
          IN  /\ cleanup_result.deleted_keys = expired
              /\ iam[u] = SelectSeq(pre[u], LAMBDA k : k.id \notin Range(expired))
              /\ Cardinality(CallsAt("delete_access_key")) = Len(expired)

\* the sweep of the first user failed and the sweep of the second user
\* deleted a key
C18_Witness ==
    /\ SweepLoopDone
    /\ SweepFailedFor("u1")
    /\ \E i \in SweepCallsAt("delete_access_key", "u2") : calls[i].ok

\* rotate_user_key has returned a result to main() and has not been entered
\* again
RotationReturned == result.username # None /\ ~InRotation
\* cleanup_old_keys has returned a result to main() and has not been entered
\* again
SweepReturned == cleanup_result.username # None /\ ~InSweep

\* C19 as stated: every result with success = FALSE that rotate_user_key or
\* cleanup_old_keys has returned to main() is in the results of the run
\* (rotated_keys, cleanup_results), with its error.
C19_FailuresReturned ==
    /\ (RotationReturned /\ ~result.success) =>
          /\ result.error # None
          /\ result \in Range(execution_results.rotated_keys)
    /\ (SweepReturned /\ ~cleanup_result.success) =>
          /\ cleanup_result.error # None
          /\ cleanup_result \in Range(execution_results.cleanup_results)

\* an earlier live call of rotate_user_key for the user and old key id of the
\* attempt under way returned success
StaleOldKey ==
    \E i \in 1..Len(execution_results.rotated_keys) :
        LET r == execution_results.rotated_keys[i] IN
        /\ r.username = result.username
        /\ r.old_key_id = result.old_key_id
        /\ r.success
        /\ ~r.dry_run
\* no delete_access_key call of the attempt under way failed
NoDeletionFailed ==
    \A d \in CallsAt("delete_access_key") : AttemptCalls[d].ok

\* C20 as stated: a call of rotate_user_key, dry run or live, with the user
\* and old key id of an earlier successful live call never returns success,
\* and leaves the service as it was unless its cleanup deletion failed.
C20_Original ==
    (pc = "rot_return" /\ StaleOldKey) =>
        /\ ~result.success
        /\ NoDeletionFailed => iam = pre

\* C20 as amended: a live call of rotate_user_key with the user and old key
\* id of an earlier successful live call never returns success, whether or
\* not cleanup_old_keys was called in between, and leaves the service as it
\* was unless its cleanup deletion failed.
C20_StaleRotationFails ==
    (pc = "rot_return" /\ ~result.dry_run /\ StaleOldKey) =>
        /\ ~result.success
        /\ result.new_secret_key = Absent
        /\ NoDeletionFailed => iam = pre

\* the old key was deleted by a sweep after its rotation; the later attempt
\* created a key, failed to update the old key and deleted the key it created
C20_Witness ==
    /\ pc = "rot_return"
    /\ ~result.dry_run
    /\ StaleOldKey
    /\ ~HasKey(pre, result.username, result.old_key_id)
    /\ \E d \in CallsAt("delete_access_key") : AttemptCalls[d].ok

\* C21: in a run of main() with --dry-run, in every state (during Discovery,
\* the rotations, the sweeps, and when the run is over) no create_access_key,
\* update_access_key or delete_access_key call has been made, the service has
\* handed out no key id, and the keys of every user are those of the start of
\* the run.
C21_DryRunChangesNothing ==
    args.dry_run =>
        /\ \A i \in 1..Len(calls) : calls[i].op \notin MutatingOps
        /\ nextId = 5
        /\ iam = pre
        /\ \A u \in Users : \A k \in Range(iam[u]) :
             k.id \in {KeyIds[1], KeyIds[2], KeyIds[3], KeyIds[4]} /\ k.create < 0

\* a dry run without --user is over: it rotated a key of each user and its
\* sweep listed a key
C21_Witness ==
    /\ pc = "done"
    /\ args.dry_run
    /\ args.user = None
    /\ exitCode = <<0>>
    /\ Len(execution_results.rotated_keys) >= 2
    /\ execution_results.cleanup_results # <<>>

\* a result of rotate_user_key called with dry_run = dry is well formed
RotationResultValid(r, dry) ==
    /\ r.dry_run = dry
    /\ r.success => (r.error = None /\ (~dry => r.new_key_id \notin {None, DRY_RUN_KEY_ID}))
    /\ ~r.success => r.error # None
\* a result of cleanup_old_keys called with dry_run = dry is well formed
CleanupResultValid(r, dry) ==
    /\ r.dry_run = dry
    /\ r.success => r.error = None
    /\ ~r.success => r.error # None

\* C22: whenever rotate_user_key or cleanup_old_keys returns to a client
\* that called it with any key id it knows and either value of dry_run, the
\* result is well formed: success = TRUE comes with no error (and, for a live
\* rotation, with the id of a created key), success = FALSE comes with an
\* error, and dry_run is the argument of the call; so is every result the
\* client has collected.
C22_WellFormedResults ==
    /\ pc = "rot_return" => RotationResultValid(result, args.dry_run)
    /\ pc = "sweep_return" => CleanupResultValid(cleanup_result, args.dry_run)
    /\ \A i \in 1..Len(execution_results.rotated_keys) :
          LET r == execution_results.rotated_keys[i] IN RotationResultValid(r, r.dry_run)
    /\ \A i \in 1..Len(execution_results.cleanup_results) :
          LET r == execution_results.cleanup_results[i] IN CleanupResultValid(r, r.dry_run)

\* the client has collected a successful live rotation, a failed rotation
\* and a failed sweep
C22_Witness ==
    /\ pc = "lib_idle"
    /\ \E i \in 1..Len(execution_results.rotated_keys) :
         /\ execution_results.rotated_keys[i].success
         /\ ~execution_results.rotated_keys[i].dry_run
    /\ \E i \in 1..Len(execution_results.rotated_keys) :
         ~execution_results.rotated_keys[i].success
    /\ \E i \in 1..Len(execution_results.cleanup_results) :
         ~execution_results.cleanup_results[i].success

\* the result r of rotate_user_key carries a secret only if it is a success
SecretOnlyOnSuccess(r) == r.new_secret_key # Absent => r.success

\* C23: in every state of an attempt, and in every result a client has
\* collected, a rotation result that is not a success holds no secret access
\* key, whether the attempt failed at the capacity check, at the create, or at
\* the update with the cleanup deletion succeeding or failing; a dry-run
\* result holds none either.
C23_SecretOnlyOnSuccess ==
    /\ SecretOnlyOnSuccess(result)
    /\ result.dry_run => result.new_secret_key = Absent
    /\ \A i \in 1..Len(execution_results.rotated_keys) :
          /\ SecretOnlyOnSuccess(execution_results.rotated_keys[i])
          /\ execution_results.rotated_keys[i].dry_run =>
               execution_results.rotated_keys[i].new_secret_key = Absent

\* the update failed and the cleanup deletion failed: the created key is
\* still there and the result holds its id but not its secret
C23_Witness ==
    /\ pc = "rot_return"
    /\ ~result.success
    /\ result.new_key_id # None
    /\ HasKey(iam, result.username, result.new_key_id)
    /\ result.new_secret_key = Absent

\* C24: the first remote call of a run is get_account_summary and it is made
\* once; when it fails it is the only call of the run (no list, create,
\* update or delete follows), the run is over with exit status 1 and the error
\* recorded, no rotation or sweep result exists and the service is unchanged.
C24_ConnectionCheck ==
    /\ pc # "start" => (Len(calls) >= 1 /\ calls[1].op = "get_account_summary")
    /\ \A i \in 2..Len(calls) : calls[i].op # "get_account_summary"
    /\ (Len(calls) >= 1 /\ ~calls[1].ok) =>
          /\ Len(calls) = 1
          /\ pc = "done"
          /\ exitCode = <<1>>
          /\ execution_results.errors = << "get_account_summary failed" >>
          /\ execution_results.rotated_keys = <<>>
          /\ execution_results.cleanup_results = <<>>
          /\ iam = pre

\* the connection test failed in a live run that had a key to rotate
C24_Witness ==
    /\ Len(calls) = 1
    /\ ~calls[1].ok
    /\ ~args.dry_run
    /\ \E u \in Users : \E k \in Range(iam[u]) :
         k.status = "Active" /\ now - k.create > Days(args.days_threshold)

\* the calls only rotate_user_key makes on its way to success
RotationOnlyOps == {"create_access_key", "sleep", "update_access_key"}
\* main() is in Discovery
InDiscovery == pc \in {"disc_begin", "disc_page", "disc_user"}
\* main() is in its cleanup loop
InSweepLoop == pc \in {"sweep_page", "sweep_user", "sweep_key", "sweep_return"}
\* the successful list_users calls among the first n calls
PagesFetched(n) ==
    Cardinality({ j \in 1..n : calls[j].op = "list_users" /\ calls[j].ok })

\* C25: the phases of a run are ordered. While Discovery is under way no
\* rotation has been attempted; in a run without --user a rotation is entered
\* only after the last page of Discovery was fetched; while a rotation is
\* under way the cleanup loop has not started, and once it has started every
\* record of old_keys (or every key of the --user response) has been dealt
\* with and no rotation call follows. When the cleanup loop is over,
\* cleanup_old_keys was called once for every user, whether or not a key of
\* that user was rotated; without --cleanup-inactive it is never called.
C25_PhasesOrdered ==
    LET sweepFrom == SweepFrom IN
    /\ InDiscovery =>
          /\ execution_results.rotated_keys = <<>>
          /\ \A i \in 1..Len(calls) : calls[i].op \notin MutatingOps \cup {"sleep"}
    /\ (args.user = None /\ InRotation) => PagesFetched(opStart) = Len(Pages)
    /\ (InRotation \/ pc \in {"rot_loop", "user_loop"}) => sweepFrom > Len(calls)
    /\ InSweepLoop =>
          /\ args.cleanup_inactive
          /\ IF args.user = None
             THEN /\ rotIdx > Len(old_keys)
                  /\ Len(execution_results.rotated_keys) = Len(old_keys)
             ELSE sweepFrom > Len(calls) => keyIdx > Len(keys_response)
    /\ \A i \in sweepFrom..Len(calls) : calls[i].op \notin RotationOnlyOps
    /\ SweepLoopDone =>
          \A u \in Users :
              Cardinality({ i \in sweepFrom..Len(calls) :
                              /\ calls[i].op = "list_access_keys"
                              /\ calls[i].user = u }) = 1
    /\ ~args.cleanup_inactive => sweepFrom > Len(calls)

\* a run without --user rotated a key of u1 only, and its cleanup loop then
\* swept both users and deleted a key of u2
C25_Witness ==
    /\ SweepLoopDone
    /\ args.user = None
    /\ ~args.dry_run
    /\ Len(execution_results.rotated_keys) = 1
    /\ execution_results.rotated_keys[1].username = "u1"
    /\ execution_results.rotated_keys[1].success
    /\ \E i \in SweepCallsAt("delete_access_key", "u2") : calls[i].ok

\* main() has generated the summary: the run completed
RunCompleted == pc = "done" /\ execution_results.errors = <<>>
\* the calls of rotate_user_key made by a live run that completed: its
\* list_access_keys calls before the cleanup loop, less those of Discovery
\* (one per user) or of the --user branch of main() (one)
LiveAttemptsMade ==
    Cardinality({ i \in 1..(SweepFrom - 1) : calls[i].op = "list_access_keys" })
    - (IF args.user = None THEN Cardinality(Users) ELSE 1)

\* C26: in the summary of a run that completed, total_keys_processed is the
\* number of results in rotated_keys, which in a live run is the number of
\* calls of rotate_user_key made, and is successful_rotations plus
\* failed_rotations; these two count the results with success TRUE and FALSE;
\* cleanup_operations is the number of results in cleanup_results.
C26_SummaryCounts ==
    RunCompleted =>
      LET summary == execution_results.summary
          rotated == execution_results.rotated_keys
      IN  /\ summary.total_keys_processed = Len(rotated)
          /\ ~args.dry_run => summary.total_keys_processed = LiveAttemptsMade
          /\ summary.total_keys_processed =
               summary.successful_rotations + summary.failed_rotations
          /\ summary.successful_rotations =
               Cardinality({ i \in 1..Len(rotated) : rotated[i].success })
          /\ summary.failed_rotations =
               Cardinality({ i \in 1..Len(rotated) : ~rotated[i].success })
          /\ summary.cleanup_operations = Len(execution_results.cleanup_results)

\* a live run completed with a successful rotation, a failed rotation and a
\* recorded sweep
C26_Witness ==
    /\ RunCompleted
    /\ ~args.dry_run
    /\ execution_results.summary.successful_rotations >= 1
    /\ execution_results.summary.failed_rotations >= 1
    /\ execution_results.summary.cleanup_operations >= 1

\* a live attempt is about to return a failure
LiveRotationFailed == LiveRotationReturns /\ ~result.success
\* the user holds a key that it did not hold when the attempt began
NewKeyLeftBehind ==
    \E k \in Range(iam[result.username]) : k.id \notin KeyIdsOf(pre[result.username])
\* the update_access_key of the attempt failed and so did its cleanup deletion
RetirementAndCleanupFailed ==
    /\ \E j \in CallsAt("update_access_key") : ~AttemptCalls[j].ok
    /\ \E d \in CallsAt("delete_access_key") : ~AttemptCalls[d].ok

\* C27: a failed live rotation leaves a key the user did not hold before
\* exactly when its update_access_key failed and the cleanup deletion failed
\* too: the keys are then those held before followed by the created key, which
\* is Active. After every other failed attempt (capacity failure, failed
\* list_access_keys, failed create, failed update with successful cleanup)
\* the service is as it was when the attempt began.
C27_OrphanOnlyIfCleanupFails ==
    LiveRotationFailed =>
        /\ NewKeyLeftBehind <=> RetirementAndCleanupFailed
        /\ RetirementAndCleanupFailed =>
             /\ Len(iam[result.username]) = Len(pre[result.username]) + 1
             /\ SubSeq(iam[result.username], 1, Len(pre[result.username]))
                  = pre[result.username]
             /\ iam[result.username][Len(iam[result.username])].id = result.new_key_id
             /\ iam[result.username][Len(iam[result.username])].status = "Active"
        /\ ~RetirementAndCleanupFailed => iam = pre

\* the update failed and the cleanup deletion succeeded: nothing is left
C27_Witness ==
    /\ LiveRotationFailed
    /\ \E j \in CallsAt("update_access_key") : ~AttemptCalls[j].ok
    /\ \E d \in CallsAt("delete_access_key") : AttemptCalls[d].ok
    /\ pre[result.username] # <<>>
    /\ iam = pre

\* rotate_user_key has been entered and has not reached its return
RotationRunning ==
    pc \in {"rot_begin", "rot_create", "rot_sleep", "rot_update", "rot_cleanup"}
\* cleanup_old_keys has been entered and has not reached its return
SweepRunning == pc \in {"sweep_user", "sweep_key"}
\* a step of a call under way stays in the call or reaches its return, and
\* adds nothing to the results and errors its caller holds; the return hands
\* over one result
CallStep ==
    /\ RotationRunning =>
          /\ pc' \in {"rot_create", "rot_sleep", "rot_update", "rot_cleanup",
                       "rot_return"}
          /\ UNCHANGED <<exitCode, execution_results>>
    /\ SweepRunning =>
          /\ pc' \in {"sweep_key", "sweep_return"}
          /\ UNCHANGED <<exitCode, execution_results>>
    /\ pc = "rot_return" =>
          /\ pc' = "lib_idle"
          /\ execution_results' = [execution_results EXCEPT
                                     !.rotated_keys = Append(@, result)]
    /\ pc = "sweep_return" =>
          /\ pc' = "lib_idle"
          /\ execution_results' = [execution_results EXCEPT
                                     !.cleanup_results = Append(@, cleanup_result)]

\* C28: every call of rotate_user_key and of cleanup_old_keys, whichever of
\* its remote calls fail, goes step by step to its return without leaving as
\* an exception, reaches that return, and hands exactly one result to its
\* caller.
C28_CallsReturn ==
    /\ [][CallStep]_vars
    /\ RotationRunning ~> pc = "rot_return"
    /\ SweepRunning ~> pc = "sweep_return"
    /\ pc \in {"rot_return", "sweep_return"} ~> pc = "lib_idle"

\* a live rotation is about to return after its list_access_keys, create,
\* update and cleanup deletion: the last two failed
C28_Witness ==
    /\ LiveRotationReturns
    /\ RetirementAndCleanupFailed
    /\ Len(AttemptCalls) = 5

\* every key held has an id the service has handed out, so that a key id
\* names one key for ever
IdsNeverReused ==
    \A u \in Users : \A k \in Range(iam[u]) :
        \E i \in 1..(nextId - 1) : k.id = KeyIds[i]
\* in this step no key that is Inactive becomes Active: it stays Inactive
\* or is deleted
NoReactivation ==
    /\ nextId' >= nextId
    /\ \A u \in Users : \A k \in Range(iam[u]) :
         k.status = "Inactive" =>
             \A k2 \in Range(iam'[u]) : k2.id = k.id => k2.status = "Inactive"

\* C29: no step of rotate_user_key or cleanup_old_keys, called in any order
\* and with any key id, changes the status of a key from Inactive to Active,
\* and key ids are never reused: a key that is Inactive in some state is
\* Inactive or deleted in every later state.
C29_DeactivationOneWay ==
    /\ []IdsNeverReused
    /\ [][NoReactivation]_vars

\* update_access_key was called for a key that was already Inactive, and the
\* key is still Inactive
C29_Witness ==
    /\ LiveRotationReturns
    /\ result.success
    /\ KeyOf(pre, result.username, result.old_key_id).status = "Inactive"
    /\ KeyOf(iam, result.username, result.old_key_id).status = "Inactive"

\* C30: every user holds at most two keys in every state of a run (every
\* user holds at most two when it starts), and whenever an attempt has called
\* create_access_key, successfully or not, its list_access_keys call had
\* succeeded before and the user held fewer than two keys.
C30_AtMostTwoKeys ==
    /\ \A u \in Users : Len(iam[u]) <= MaxKeysPerUser
    /\ (InRotation /\ CallsAt("create_access_key") # {}) =>
          /\ AttemptCalls[1].op = "list_access_keys"
          /\ AttemptCalls[1].ok
          /\ CallsAt("create_access_key") = {2}
          /\ Len(pre[result.username]) < MaxKeysPerUser

\* a rotation has created the second key of a user
C30_Witness ==
    /\ pc = "rot_sleep"
    /\ Len(pre[result.username]) = 1
    /\ Len(iam[result.username]) = MaxKeysPerUser

\* the positions in AttemptCalls of the create_access_key calls that succeeded
CreatedAt == { i \in CallsAt("create_access_key") : AttemptCalls[i].ok }

\* C31: in every state of an attempt there is at most one sleep; a sleep
\* directly follows a successful create_access_key and every
\* update_access_key comes after it; once the update is reached or the
\* attempt returns, an attempt whose create succeeded has slept exactly once,
\* and an attempt without a successful create (dry run, capacity failure,
\* failed list_access_keys, failed create) has not slept.
C31_PropagationDelay ==
    (InRotation /\ result.username # None) =>
        /\ Cardinality(CallsAt("sleep")) <= 1
        /\ \A s \in CallsAt("sleep") : (s - 1) \in CreatedAt
        /\ \A j \in CallsAt("update_access_key") :
             \E s \in CallsAt("sleep") : s < j
        /\ pc \in {"rot_update", "rot_cleanup", "rot_return"} =>
             Cardinality(CallsAt("sleep")) = Cardinality(CreatedAt)
        /\ result.dry_run => AttemptCalls = <<>>

\* a live attempt succeeded: list_access_keys, create, sleep, update
C31_Witness ==
    /\ LiveRotationReturns
    /\ result.success
    /\ Len(AttemptCalls) = 4
    /\ AttemptCalls[3].op = "sleep"

\* C32: in every state of a rotation attempt, every delete_access_key call
\* the attempt has issued names a key that a successful create_access_key of
\* this same attempt returned, never a key the user held when the attempt
\* began; and every key the user held when the attempt began, the old key
\* included, is still held.
C32_DeletesOnlyOwnKey ==
    (InRotation /\ result.username # None) =>
        /\ \A d \in CallsAt("delete_access_key") :
             /\ AttemptCalls[d].key \notin KeyIdsOf(pre[result.username])
             /\ AttemptCalls[d].key # result.old_key_id
             /\ \E c \in CreatedAt :
                  c < d /\ AttemptCalls[c].key = AttemptCalls[d].key
        /\ KeyIdsOf(pre[result.username]) \subseteq KeyIdsOf(iam[result.username])

\* an attempt on a key the user holds deleted the key it had created, and
\* the old key is still there
C32_Witness ==
    /\ LiveRotationReturns
    /\ result.old_key_id \in KeyIdsOf(pre[result.username])
    /\ \E d \in CallsAt("delete_access_key") : AttemptCalls[d].ok
    /\ result.old_key_id \in KeyIdsOf(iam[result.username])

\* the key ids of the rotation results main() has collected
RotatedIds ==
    { execution_results.rotated_keys[i].old_key_id :
        i \in 1..Len(execution_results.rotated_keys) }

\* C33: in a run with --user, a key of the listing is handed to
\* rotate_user_key exactly when Discovery, run at the instant the key's age
\* was taken (threshold date = that instant minus the threshold), would
\* return it: the key handed over is Active and created strictly before the
\* threshold date, and a key passed over is not.
C33_UserPathMatchesDiscovery ==
    args.user # None =>
        /\ pc = "rot_begin" =>
             IsOldActiveKey(keys_response[keyIdx],
                            now - Days(args.days_threshold))
        /\ (pc = "user_loop" /\ keyIdx > 1
                /\ keys_response[keyIdx - 1].id \notin RotatedIds) =>
             ~IsOldActiveKey(keys_response[keyIdx - 1],
                             now - Days(args.days_threshold))

\* the outcome of a dry-run rotation, computed from the arguments alone
DryRunOutcome(username, old_key_id) ==
    [username |-> username, old_key_id |-> old_key_id,
     new_key_id |-> DRY_RUN_KEY_ID, success |-> TRUE, error |-> None,
     dry_run |-> TRUE, new_secret_key |-> Absent]

\* C34: a dry-run rotation that returns has made no remote call, and its
\* outcome is the value of a function of (username, old_key_id) that does
\* not read the service state; so two dry runs with the same arguments
\* return the same outcome in any two states, also where the user holds 2
\* keys or does not hold the old key at all.
C34_DryRunIgnoresService ==
    (pc = "rot_return" /\ result.dry_run) =>
        /\ AttemptCalls = <<>>
        /\ result = DryRunOutcome(result.username, result.old_key_id)

\* a dry run succeeded without a call for a user that holds 2 keys, for
\* which a live rotation fails the capacity check
C34_Witness ==
    /\ pc = "rot_return"
    /\ result.dry_run
    /\ result.success
    /\ CapacityExceeded(iam[result.username])
    /\ AttemptCalls = <<>>

\* C35: in a run with --user, every rotation result, every rotation attempt
\* and every create_access_key, sleep and update_access_key call is for that
\* user; and once the cleanup loop of such a run is over, cleanup_old_keys
\* has listed the keys of every user of the account exactly once.
C35_UserRunSweepsAll ==
    args.user # None =>
        /\ \A i \in 1..Len(execution_results.rotated_keys) :
             execution_results.rotated_keys[i].username = args.user
        /\ InRotation => result.username = args.user
        /\ \A i \in 1..Len(calls) :
             calls[i].op \in RotationOnlyOps => calls[i].user = args.user
        /\ SweepLoopDone =>
             \A u \in Users :
                Cardinality(SweepCallsAt("list_access_keys", u)) = 1

\* a run restricted to one user rotated a key of that user, and its sweep
\* deleted a key of another user
C35_Witness ==
    /\ args.user # None
    /\ \E i \in 1..Len(execution_results.rotated_keys) :
         execution_results.rotated_keys[i].success
    /\ \E u \in Users \ {args.user} :
         \E i \in SweepCallsAt("delete_access_key", u) : calls[i].ok

\* C37: when a live rotation returns success = FALSE, new_key_id is not None
\* exactly when a create_access_key of this attempt succeeded; it is then
\* the id that call returned and the failing call is update_access_key; the
\* id is in the outcome after a cleanup delete that succeeded (the key is
\* then gone from the service) as well as after one that failed.
C37_FailedOutcomeNamesCreatedKey ==
    (LiveRotationReturns /\ ~result.success) =>
        /\ result.new_key_id # None <=> CreatedAt # {}
        /\ \A c \in CreatedAt :
             /\ result.new_key_id = AttemptCalls[c].key
             /\ \E j \in CallsAt("update_access_key") : ~AttemptCalls[j].ok
             /\ \E d \in CallsAt("delete_access_key") :
                  /\ AttemptCalls[d].key = result.new_key_id
                  /\ AttemptCalls[d].ok =>
                       ~HasKey(iam, result.username, result.new_key_id)
                  /\ ~AttemptCalls[d].ok =>
                       HasKey(iam, result.username, result.new_key_id)

\* a failed outcome names a key that was created and deleted again
C37_Witness ==
    /\ LiveRotationReturns
    /\ ~result.success
    /\ result.new_key_id # None
    /\ ~HasKey(iam, result.username, result.new_key_id)

\* the rotation results of the run that takes steps, and of the waiting run
OwnResults == execution_results.rotated_keys
OtherResults == suspended.execution_results.rotated_keys

\* C36 as stated, its first part: the two runs never both hold a result
\* with success = TRUE for the same old key.
C36_Original ==
    \A i \in 1..Len(OwnResults) : \A j \in 1..Len(OtherResults) :
        ~ /\ OwnResults[i].success
          /\ OtherResults[j].success
          /\ OwnResults[i].username = OtherResults[j].username
          /\ OwnResults[i].old_key_id = OtherResults[j].old_key_id

\* a step never takes the last Active key of a user away
KeepsAnActiveKey ==
    \A u \in Users :
        ActiveKeys(iam[u]) # {} => ActiveKeys(iam'[u]) # {}

\* the two runs never both hold a live result with success = TRUE for the
\* same old key
NoDoubleRotation ==
    \A i \in 1..Len(OwnResults) : \A j \in 1..Len(OtherResults) :
        ~ /\ OwnResults[i].success /\ ~OwnResults[i].dry_run
          /\ OtherResults[j].success /\ ~OtherResults[j].dry_run
          /\ OwnResults[i].username = OtherResults[j].username
          /\ OwnResults[i].old_key_id = OtherResults[j].old_key_id

\* C36 (amended): with create_access_key rejected by the service for a user
\* that holds 2 keys, two overlapping runs whose steps interleave in any
\* order never both report a successful live rotation of the same old key,
\* and no step of either run leaves a user that held an Active key without
\* one.
C36_NoDoubleRotation == []NoDoubleRotation /\ [][KeepsAnActiveKey]_vars

\* two live runs overlapped on the same old key: the capacity check of this
\* run passed, then the other run created its key and rotated the old key,
\* and the service rejected the create_access_key of this run
C36_Witness ==
    /\ suspended # NoRun
    /\ pc = "rot_return"
    /\ ~result.dry_run
    /\ result.error = "create_access_key failed"
    /\ Len(pre[result.username]) < MaxKeysPerUser
    /\ Len(iam[result.username]) = MaxKeysPerUser
    /\ \E j \in 1..Len(OtherResults) :
         /\ OtherResults[j].success
         /\ ~OtherResults[j].dry_run
         /\ OtherResults[j].old_key_id = result.old_key_id

====
